---- MODULE Spec2Model ----
(***************************************************************************)
(* TezRent rental workflow: the Rental / RentalStatusUpdate /              *)
(* RentalPayment / RentalSale tables and the API operations that write     *)
(* them (rentals/views.py, rentals/serializers.py, rentals/models.py,      *)
(* rentals/signals.py, payments/views.py, equipment/models.py).            *)
(*                                                                         *)
(* Money is counted in mills (1/1000 of a currency unit), so a value with  *)
(* two decimal places is a multiple of 10 and the three-place products the *)
(* code computes in memory (daily_rate * 0.1 * days, revenue * 0.10) are   *)
(* exact integers.  A DecimalField(decimal_places=2) column keeps two      *)
(* places: the row holds the value rounded to a multiple of 10.            *)
(* Dates are day numbers; Today is the day on which requests are served.   *)
(* Timestamps (approved_at, ...) are modelled by whether they are set.     *)
(***************************************************************************)
EXTENDS Integers, Sequences, FiniteSets, TLC

\* ------------------------------------------------------------------ bounds
MaxRentals == 1
MaxUpdates == 2
MaxPayments == 2

\* --------------------------------------------------------- program constants
AutoApproveBelow == 5
DeliveryFee == 50000
SignalCommissionPct == 10
Today == 1

\* ------------------------------------------------------------------ users
Customers == {"c1"}
Sellers == {"s1", "s2"}
Users == Customers \cup Sellers \cup {"staff"}

has_customer_profile(u) == u \in Customers
has_company_profile(u) == u \in Sellers

\* ------------------------------------------------------------------ equipment
EquipmentIds == {"e1", "e2"}

\* equipment: per Equipment row the columns a seller edits after listing
\* (status, total_units, available_units)
VARIABLE equipment

\* The listings as their sellers created them
EquipmentListed ==
  [e \in EquipmentIds |->
     IF e = "e1"
     THEN [status |-> "available", total_units |-> 5, available_units |-> 5]
     ELSE [status |-> "available", total_units |-> 1, available_units |-> 1]]

Equipment(e) ==
  IF e = "e1"
  THEN [seller_company |-> "s1", daily_rate |-> 10250, status |-> equipment[e].status,
        total_units |-> equipment[e].total_units,
        available_units |-> equipment[e].available_units, operating_manual |-> TRUE]
  ELSE [seller_company |-> "s2", daily_rate |-> 10000, status |-> equipment[e].status,
        total_units |-> equipment[e].total_units,
        available_units |-> equipment[e].available_units, operating_manual |-> FALSE]

\* ------------------------------------------------------------------ statuses
STATUS_CHOICES ==
  {"pending", "approved", "payment_pending", "confirmed", "preparing",
   "ready_for_pickup", "out_for_delivery", "delivered", "in_progress",
   "return_requested", "returning", "completed", "cancelled", "overdue",
   "dispute"}

\* Faulty variant: the table has lost its last row, returning -> completed
valid_transitions_no_completion(s) ==
  CASE s = "pending" -> {"approved", "cancelled"}
    [] s = "approved" -> {"confirmed", "cancelled"}
    [] s = "confirmed" -> {"preparing", "cancelled"}
    [] s = "preparing" -> {"ready_for_pickup"}
    [] s = "ready_for_pickup" -> {"out_for_delivery", "delivered"}
    [] s = "out_for_delivery" -> {"delivered"}
    [] s = "delivered" -> {"in_progress", "return_requested"}
    [] s = "in_progress" -> {"return_requested", "overdue"}
    [] s = "return_requested" -> {"returning"}
    [] OTHER -> {}

valid_transitions(s) ==
  CASE s = "pending" -> {"approved", "cancelled"}
    [] s = "approved" -> {"confirmed", "cancelled"}
    [] s = "confirmed" -> {"preparing", "cancelled"}
    [] s = "preparing" -> {"ready_for_pickup"}
    [] s = "ready_for_pickup" -> {"out_for_delivery", "delivered"}
    [] s = "out_for_delivery" -> {"delivered"}
    [] s = "delivered" -> {"in_progress", "return_requested"}
    [] s = "in_progress" -> {"return_requested", "overdue"}
    [] s = "return_requested" -> {"returning"}
    [] s = "returning" -> {"completed"}
    [] OTHER -> {}

\* Faulty variant: any change of status is accepted
UpdateStatusValid_any(current_status, new_status) ==
  new_status # current_status

\* RentalUpdateStatusSerializer.validate: TRUE when the transition is accepted
UpdateStatusValid(current_status, new_status) ==
  new_status \in valid_transitions(current_status)

\* ------------------------------------------------------------------ decimals
\* numeric(10,2) column: ties are rounded away from zero (values are >= 0 here)
Quantize2(x) == ((x + 5) \div 10) * 10

\* ------------------------------------------------------------------ state
\* rentals:        the Rental table, row i has primary key i
\* status_updates: the RentalStatusUpdate table, in insertion order
\* payments:       the RentalPayment table, row i has primary key i
\* documents:      the RentalDocument table
\* sales:          the RentalSale table
\* response:       the answer to the last request
\* availability:   the last answer of Equipment.is_available_on_dates to a probe
\* creating:       the rental-creation requests served concurrently, each with
\*                 its position in the handler and its validated data
\* sale_create_raises: whether RentalSale.objects.create raises when it is
\*                 called next (a database error, for one)
\* listing:        the body of the last answer of the documents endpoint
\* reviews:        the RentalReview table
\* ziina:          the call of the gateway client being served or served last
\* images:         the EquipmentImage table; the primary key of a row is its index
\* otp_codes:      the OTPCode table
\* now:            the clock, in minutes
VARIABLES otp_codes, now, images, ziina, rentals, status_updates, payments, documents, sales, response, availability,
          creating, sale_create_raises, listing, reviews

\* The tables beside the rental workflow
accounts == <<otp_codes, now>>
beside == <<reviews, ziina, images, accounts>>

vars == <<rentals, status_updates, payments, documents, sales, response, availability,
          equipment, creating, sale_create_raises, listing, beside>>

\* The variables the endpoints served in one step leave alone
rest == <<equipment, creating, sale_create_raises, listing, beside>>

RentalIds == 1..Len(rentals)

\* ------------------------------------------------------------------ request inputs
DateRanges == {<<0, 1>>, <<1, 1>>, <<1, 2>>, <<2, 4>>}
WorkflowRanges == {<<0, 1>>, <<1, 1>>, <<1, 2>>}
Quantities == {1, 5}

\* An answer: the endpoint, the HTTP status, the rental addressed and, for
\* update_status, the status the request asked for (it is part of the message)
RespD(op, code, rid, detail) == [op |-> op, code |-> code, rental |-> rid, detail |-> detail]
Resp(op, code, rid) == RespD(op, code, rid, "")

\* ------------------------------------------------------------------ Rental model
\* Faulty variant: total_amount is kept as the caller set it
Rental_save_keeps_total(inst) ==
  LET total_days == (inst.end_date - inst.start_date) + 1
      subtotal == inst.daily_rate * total_days * inst.quantity
  IN [inst EXCEPT
        !.total_days = total_days,
        !.subtotal = subtotal]

\* Rental.save: the totals are recomputed from the dates, rate, quantity and fees
Rental_save(inst) ==
  LET total_days == (inst.end_date - inst.start_date) + 1
      subtotal == inst.daily_rate * total_days * inst.quantity
  IN [inst EXCEPT
        !.total_days = total_days,
        !.subtotal = subtotal,
        !.total_amount = subtotal + inst.delivery_fee + inst.insurance_fee
                         + inst.late_fees + inst.damage_fees]

\* The row the database keeps for a saved instance: decimal columns keep 2 places
RentalRow(inst) ==
  [inst EXCEPT
     !.daily_rate = Quantize2(inst.daily_rate),
     !.subtotal = Quantize2(inst.subtotal),
     !.delivery_fee = Quantize2(inst.delivery_fee),
     !.insurance_fee = Quantize2(inst.insurance_fee),
     !.late_fees = Quantize2(inst.late_fees),
     !.damage_fees = Quantize2(inst.damage_fees),
     !.total_amount = Quantize2(inst.total_amount)]

\* ------------------------------------------------------------------ RentalSale model
SaleRows(tbl, rid) == {i \in 1..Len(tbl) : tbl[i].rental = rid}

\* hasattr(instance, 'sale'): the reverse side of the one-to-one relation
has_sale(tbl, rid) == SaleRows(tbl, rid) # {}

\* Faulty variant: commission and payout are computed on every save
RentalSale_save_always(sale, has_pk) ==
  LET commission == (sale.total_revenue * sale.platform_commission_percentage) \div 100
  IN [sale EXCEPT
        !.platform_commission_amount = commission,
        !.seller_payout = sale.total_revenue - commission]

\* RentalSale.save: commission and payout are computed when the row has no pk yet
RentalSale_save(sale, has_pk) ==
  IF ~has_pk
  THEN LET commission == (sale.total_revenue * sale.platform_commission_percentage) \div 100
       IN [sale EXCEPT
             !.platform_commission_amount = commission,
             !.seller_payout = sale.total_revenue - commission]
  ELSE sale

SaleRow(sale) ==
  [sale EXCEPT
     !.total_revenue = Quantize2(sale.total_revenue),
     !.platform_commission_amount = Quantize2(sale.platform_commission_amount),
     !.seller_payout = Quantize2(sale.seller_payout)]

\* Faulty variant: the receiver does not look for an existing sale
create_sale_on_completion_unguarded(tbl, rid, instance) ==
  IF instance.status = "completed"
  THEN Append(tbl, SaleRow(RentalSale_save(
         [rental |-> rid,
          total_revenue |-> instance.total_amount,
          platform_commission_percentage |-> SignalCommissionPct,
          platform_commission_amount |-> 0,
          seller_payout |-> 0,
          payout_status |-> "pending"], FALSE)))
  ELSE tbl

\* Faulty variant: the sale row is written although its creation raised
create_sale_on_completion_ignoring_error(tbl, rid, instance) ==
  IF instance.status = "completed" /\ ~has_sale(tbl, rid)
  THEN Append(tbl, SaleRow(RentalSale_save(
         [rental |-> rid,
          total_revenue |-> instance.total_amount,
          platform_commission_percentage |-> SignalCommissionPct,
          platform_commission_amount |-> 0,
          seller_payout |-> 0,
          payout_status |-> "pending"], FALSE)))
  ELSE tbl

\* post_save receiver of Rental: the sales table after the signal has run.  An
\* exception of RentalSale.objects.create is caught and printed: no row is written.
create_sale_on_completion(tbl, rid, instance) ==
  IF instance.status = "completed" /\ ~has_sale(tbl, rid)
  THEN IF sale_create_raises
       THEN tbl
       ELSE Append(tbl, SaleRow(RentalSale_save(
              [rental |-> rid,
               total_revenue |-> instance.total_amount,
               platform_commission_percentage |-> SignalCommissionPct,
               platform_commission_amount |-> 0,
               seller_payout |-> 0,
               payout_status |-> "pending"], FALSE)))
  ELSE tbl

\* instance.save() of a loaded or new Rental: the row is written, then post_save runs
SaveRental(rid, inst) ==
  LET saved == Rental_save(inst)
  IN /\ rentals' = IF rid \in RentalIds
                   THEN [rentals EXCEPT ![rid] = RentalRow(saved)]
                   ELSE Append(rentals, RentalRow(saved))
     /\ sales' = create_sale_on_completion(sales, rid, saved)

\* ------------------------------------------------------------------ Equipment model
ActiveStatuses ==
  {"confirmed", "preparing", "ready_for_pickup", "out_for_delivery",
   "delivered", "in_progress"}

\* Faulty variant: ranges that only share their first or last day do not overlap
RECURSIVE SumQuantity_strict(_, _, _, _, _)
SumQuantity_strict(tbl, i, e, start_date, end_date) ==
  IF i = 0 THEN 0
  ELSE SumQuantity_strict(tbl, i - 1, e, start_date, end_date)
       + (IF /\ tbl[i].equipment = e
             /\ tbl[i].status \in ActiveStatuses
             /\ tbl[i].start_date < end_date
             /\ tbl[i].end_date > start_date
          THEN tbl[i].quantity ELSE 0)

RECURSIVE SumQuantity(_, _, _, _, _)
SumQuantity(tbl, i, e, start_date, end_date) ==
  IF i = 0 THEN 0
  ELSE SumQuantity(tbl, i - 1, e, start_date, end_date)
       + (IF /\ tbl[i].equipment = e
             /\ tbl[i].status \in ActiveStatuses
             /\ tbl[i].start_date <= end_date
             /\ tbl[i].end_date >= start_date
          THEN tbl[i].quantity ELSE 0)

is_available_on_dates(tbl, e, start_date, end_date, requested_quantity) ==
  LET rented_quantity == SumQuantity(tbl, Len(tbl), e, start_date, end_date)
      available == Equipment(e).available_units - rented_quantity
  IN available >= requested_quantity

\* The value of `availability` before any probe
NoProbe ==
  [equipment |-> "", start_date |-> 0, end_date |-> 0, quantity |-> 0, available |-> FALSE]

\* A call equipment.is_available_on_dates(start_date, end_date, quantity)
ProbeAvailability(e, start_date, end_date, quantity) ==
  /\ availability' =
       [equipment |-> e, start_date |-> start_date, end_date |-> end_date,
        quantity |-> quantity,
        available |-> is_available_on_dates(rentals, e, start_date, end_date, quantity)]
  /\ UNCHANGED <<rentals, status_updates, payments, documents, sales, response, rest>>

\* ------------------------------------------------------------------ rental creation
\* Faulty variant: the equipment's status is not looked at
validate_ignoring_status(e, start_date, end_date, quantity) ==
  IF start_date < Today
  THEN "Start date cannot be in the past"
  ELSE IF end_date <= start_date
  THEN "End date must be after start date"
  ELSE IF quantity > Equipment(e).available_units
  THEN "Only " \o ToString(Equipment(e).available_units) \o " units available in total"
  ELSE IF ~is_available_on_dates(rentals, e, start_date, end_date, quantity)
  THEN "Not enough units available for the selected dates. Some units are already booked."
  ELSE ""

\* RentalCreateSerializer.validate: the message of the ValidationError it
\* raises, "" when it returns the data
validate(e, start_date, end_date, quantity) ==
  IF start_date < Today
  THEN "Start date cannot be in the past"
  ELSE IF end_date <= start_date
  THEN "End date must be after start date"
  ELSE IF Equipment(e).status # "available"
  THEN "Equipment is not available for rental"
  ELSE IF quantity > Equipment(e).available_units
  THEN "Only " \o ToString(Equipment(e).available_units) \o " units available in total"
  ELSE IF ~is_available_on_dates(rentals, e, start_date, end_date, quantity)
  THEN "Not enough units available for the selected dates. Some units are already booked."
  ELSE ""

\* serializer.is_valid()
CreateValid(e, start_date, end_date, quantity) ==
  validate(e, start_date, end_date, quantity) = ""

\* The message of the 400 answer to a creation request
CreateError(user, e, start_date, end_date, quantity) ==
  IF ~CreateValid(e, start_date, end_date, quantity)
  THEN validate(e, start_date, end_date, quantity)
  ELSE "Only customers can create rental requests"

\* Faulty variant: the auto-approval limit is inclusive
NewRental_inclusive(user, e, start_date, end_date, quantity, pickup_required) ==
  LET daily_rate == Equipment(e).daily_rate
      total_days == (end_date - start_date) + 1
      subtotal == daily_rate * total_days * quantity
      delivery_fee == IF pickup_required THEN DeliveryFee ELSE 0
      insurance_fee == (daily_rate * total_days) \div 10
      auto == quantity <= AutoApproveBelow
  IN [customer |-> user, equipment |-> e, seller |-> Equipment(e).seller_company,
      start_date |-> start_date, end_date |-> end_date, quantity |-> quantity,
      daily_rate |-> daily_rate, total_days |-> total_days, subtotal |-> subtotal,
      delivery_fee |-> delivery_fee, insurance_fee |-> insurance_fee,
      late_fees |-> 0, damage_fees |-> 0,
      total_amount |-> subtotal + delivery_fee + insurance_fee,
      status |-> IF auto THEN "approved" ELSE "pending",
      approved_at |-> auto, cancelled_at |-> FALSE, cancellation_reason |-> "",
      actual_start_date |-> FALSE, actual_end_date |-> FALSE]

NewRental(user, e, start_date, end_date, quantity, pickup_required) ==
  LET daily_rate == Equipment(e).daily_rate
      total_days == (end_date - start_date) + 1
      subtotal == daily_rate * total_days * quantity
      delivery_fee == IF pickup_required THEN DeliveryFee ELSE 0
      insurance_fee == (daily_rate * total_days) \div 10
      auto == quantity < AutoApproveBelow
  IN [customer |-> user, equipment |-> e, seller |-> Equipment(e).seller_company,
      start_date |-> start_date, end_date |-> end_date, quantity |-> quantity,
      daily_rate |-> daily_rate, total_days |-> total_days, subtotal |-> subtotal,
      delivery_fee |-> delivery_fee, insurance_fee |-> insurance_fee,
      late_fees |-> 0, damage_fees |-> 0,
      total_amount |-> subtotal + delivery_fee + insurance_fee,
      status |-> IF auto THEN "approved" ELSE "pending",
      approved_at |-> auto, cancelled_at |-> FALSE, cancellation_reason |-> "",
      actual_start_date |-> FALSE, actual_end_date |-> FALSE]

NewDocuments(rid, e) ==
  <<[rental |-> rid, document_type |-> "rental_agreement", file |-> TRUE,
     visible_to_customer |-> TRUE, requires_payment |-> FALSE]>>
  \o (IF Equipment(e).operating_manual
      THEN <<[rental |-> rid, document_type |-> "operating_manual", file |-> TRUE,
              visible_to_customer |-> TRUE, requires_payment |-> TRUE]>>
      ELSE <<>>)

\* Faulty variant: a stored rental takes its units out of available_units
CreateRental_reserving(user, e, range, quantity, pickup_required) ==
  LET start_date == range[1]
      end_date == range[2]
      rid == Len(rentals) + 1
      inst == NewRental(user, e, start_date, end_date, quantity, pickup_required)
  IN IF CreateValid(e, start_date, end_date, quantity) /\ has_customer_profile(user)
     THEN /\ Len(rentals) < MaxRentals
          /\ SaveRental(rid, inst)
          /\ status_updates' = Append(status_updates,
               [rental |-> rid, old_status |-> "", new_status |-> inst.status])
          /\ documents' = documents \o NewDocuments(rid, e)
          /\ response' = Resp("create", 201, rid)
          /\ equipment' = [equipment EXCEPT ![e].available_units = @ - quantity]
          /\ UNCHANGED <<payments, availability, creating, sale_create_raises, listing, beside>>
     ELSE /\ response' = RespD("create", 400, 0,
                             CreateError(user, e, start_date, end_date, quantity))
          /\ UNCHANGED <<rentals, status_updates, payments, documents, sales, availability, rest>>

\* POST /rentals/ : RentalViewSet.create with RentalCreateSerializer
CreateRental(user, e, range, quantity, pickup_required) ==
  LET start_date == range[1]
      end_date == range[2]
      rid == Len(rentals) + 1
      inst == NewRental(user, e, start_date, end_date, quantity, pickup_required)
  IN IF CreateValid(e, start_date, end_date, quantity) /\ has_customer_profile(user)
     THEN /\ Len(rentals) < MaxRentals
          /\ SaveRental(rid, inst)
          /\ status_updates' = Append(status_updates,
               [rental |-> rid, old_status |-> "", new_status |-> inst.status])
          /\ documents' = documents \o NewDocuments(rid, e)
          /\ response' = Resp("create", 201, rid)
          /\ UNCHANGED <<payments, availability, rest>>
     ELSE /\ response' = RespD("create", 400, 0,
                             CreateError(user, e, start_date, end_date, quantity))
          /\ UNCHANGED <<rentals, status_updates, payments, documents, sales, availability, rest>>

\* ------------------------------------------------------------------ concurrent creation
\* Worker threads serving POST /rentals/ at the same time.  A request is first
\* validated (serializer.is_valid) and then stored (serializer.save); nothing
\* is locked and no transaction spans the two, so other requests run in between.
MaxCreators == 2
MaxRaceRentals == 2
Creators == 1..MaxCreators

NotCreating ==
  [pc |-> "idle", user |-> "", equipment |-> "", start_date |-> 0, end_date |-> 0,
   quantity |-> 0, pickup_required |-> FALSE, rows_seen |-> 0]

\* serializer.is_valid(): RentalCreateSerializer.validate against the rows stored
\* now; rows_seen is the number of Rental rows the availability query ran over
BeginCreate(i, user, e, range, quantity, pickup_required) ==
  /\ creating[i].pc = "idle"
  /\ IF CreateValid(e, range[1], range[2], quantity)
     THEN /\ creating' = [creating EXCEPT ![i] =
                [pc |-> "validated", user |-> user, equipment |-> e,
                 start_date |-> range[1], end_date |-> range[2],
                 quantity |-> quantity, pickup_required |-> pickup_required,
                 rows_seen |-> Len(rentals)]]
          /\ UNCHANGED <<rentals, status_updates, payments, documents, sales,
                         response, availability, equipment, sale_create_raises, listing, beside>>
     ELSE /\ response' = RespD("create", 400, 0,
                             validate(e, range[1], range[2], quantity))
          /\ UNCHANGED <<rentals, status_updates, payments, documents, sales,
                         availability, rest>>

\* Faulty variant: the availability is checked again when the row is stored
FinishCreate_rechecks(i) ==
  LET req == creating[i]
      rid == Len(rentals) + 1
      inst == NewRental(req.user, req.equipment, req.start_date, req.end_date,
                        req.quantity, req.pickup_required)
  IN /\ req.pc = "validated"
     /\ creating' = [creating EXCEPT ![i].pc = "done"]
     /\ IF /\ has_customer_profile(req.user)
           /\ CreateValid(req.equipment, req.start_date, req.end_date, req.quantity)
        THEN /\ Len(rentals) < MaxRaceRentals
             /\ SaveRental(rid, inst)
             /\ status_updates' = Append(status_updates,
                  [rental |-> rid, old_status |-> "", new_status |-> inst.status])
             /\ documents' = documents \o NewDocuments(rid, req.equipment)
             /\ response' = Resp("create", 201, rid)
             /\ UNCHANGED <<payments, availability, equipment, sale_create_raises, listing, beside>>
        ELSE /\ response' = RespD("create", 400, 0,
                                "Only customers can create rental requests")
             /\ UNCHANGED <<rentals, status_updates, payments, documents, sales,
                            availability, equipment, sale_create_raises, listing, beside>>

\* serializer.save(): RentalCreateSerializer.create with the validated data
FinishCreate(i) ==
  LET req == creating[i]
      rid == Len(rentals) + 1
      inst == NewRental(req.user, req.equipment, req.start_date, req.end_date,
                        req.quantity, req.pickup_required)
  IN /\ req.pc = "validated"
     /\ creating' = [creating EXCEPT ![i].pc = "done"]
     /\ IF has_customer_profile(req.user)
        THEN /\ Len(rentals) < MaxRaceRentals
             /\ SaveRental(rid, inst)
             /\ status_updates' = Append(status_updates,
                  [rental |-> rid, old_status |-> "", new_status |-> inst.status])
             /\ documents' = documents \o NewDocuments(rid, req.equipment)
             /\ response' = Resp("create", 201, rid)
             /\ UNCHANGED <<payments, availability, equipment, sale_create_raises, listing, beside>>
        ELSE /\ response' = RespD("create", 400, 0,
                                "Only customers can create rental requests")
             /\ UNCHANGED <<rentals, status_updates, payments, documents, sales,
                            availability, equipment, sale_create_raises, listing, beside>>

\* ------------------------------------------------------------------ status operations
\* Faulty variant: every user can address every rental
Visible_to_all(user, rid) ==
  rid \in RentalIds

\* RentalViewSet.get_queryset / get_object: the rentals a user can address
Visible(user, rid) ==
  /\ rid \in RentalIds
  /\ IF has_customer_profile(user) THEN rentals[rid].customer = user
     ELSE IF has_company_profile(user) THEN rentals[rid].seller = user
     ELSE TRUE

UpdatesOf(rid) == {i \in 1..Len(status_updates) : status_updates[i].rental = rid}

LogRoom(rid) == Cardinality(UpdatesOf(rid)) < MaxUpdates

LogStatus(rid, old_status, new_status) ==
  status_updates' = Append(status_updates,
    [rental |-> rid, old_status |-> old_status, new_status |-> new_status])

\* POST /rentals/{id}/update_status/
UpdateStatus(user, rid, new_status) ==
  IF ~Visible(user, rid)
  THEN /\ response' = RespD("update_status", 404, rid, new_status)
       /\ UNCHANGED <<rentals, status_updates, payments, documents, sales, availability, rest>>
  ELSE IF UpdateStatusValid(rentals[rid].status, new_status)
  THEN LET rental == rentals[rid]
           old_status == rental.status
           changed ==
             [rental EXCEPT
                !.status = new_status,
                !.approved_at = IF new_status = "approved" THEN TRUE ELSE @,
                !.actual_start_date = IF new_status = "delivered" THEN TRUE ELSE @,
                !.actual_end_date = IF new_status = "completed" THEN TRUE ELSE @,
                !.cancelled_at = IF new_status = "cancelled" THEN TRUE ELSE @]
       IN /\ LogRoom(rid)
          /\ SaveRental(rid, changed)
          /\ LogStatus(rid, old_status, new_status)
          /\ response' = RespD("update_status", 200, rid, new_status)
          /\ UNCHANGED <<payments, documents, availability, rest>>
  ELSE /\ response' = RespD("update_status", 400, rid, new_status)
       /\ UNCHANGED <<rentals, status_updates, payments, documents, sales, availability, rest>>

\* POST /rentals/{id}/approve/
Approve(user, rid) ==
  IF ~Visible(user, rid)
  THEN /\ response' = Resp("approve", 404, rid)
       /\ UNCHANGED <<rentals, status_updates, payments, documents, sales, availability, rest>>
  ELSE IF ~has_company_profile(user) \/ rentals[rid].seller # user
  THEN /\ response' = Resp("approve", 403, rid)
       /\ UNCHANGED <<rentals, status_updates, payments, documents, sales, availability, rest>>
  ELSE IF rentals[rid].status # "pending"
  THEN /\ response' = Resp("approve", 400, rid)
       /\ UNCHANGED <<rentals, status_updates, payments, documents, sales, availability, rest>>
  ELSE /\ LogRoom(rid)
       /\ SaveRental(rid, [rentals[rid] EXCEPT !.status = "approved", !.approved_at = TRUE])
       /\ LogStatus(rid, "pending", "approved")
       /\ response' = Resp("approve", 200, rid)
       /\ UNCHANGED <<payments, documents, availability, rest>>

\* request.data.get('reason', default): NotGiven stands for a body without reason
NotGiven == "(not given)"
Reasons == {NotGiven, "changed plans"}
reason_or(reason, default) == IF reason = NotGiven THEN default ELSE reason

\* POST /rentals/{id}/reject/
Reject(user, rid, reason) ==
  IF ~Visible(user, rid)
  THEN /\ response' = Resp("reject", 404, rid)
       /\ UNCHANGED <<rentals, status_updates, payments, documents, sales, availability, rest>>
  ELSE IF ~has_company_profile(user)
  THEN /\ response' = Resp("reject", 403, rid)
       /\ UNCHANGED <<rentals, status_updates, payments, documents, sales, availability, rest>>
  ELSE IF rentals[rid].status # "pending"
  THEN /\ response' = Resp("reject", 400, rid)
       /\ UNCHANGED <<rentals, status_updates, payments, documents, sales, availability, rest>>
  ELSE /\ LogRoom(rid)
       /\ SaveRental(rid, [rentals[rid] EXCEPT
            !.status = "cancelled", !.cancelled_at = TRUE,
            !.cancellation_reason = reason_or(reason, "No reason provided")])
       /\ LogStatus(rid, "pending", "cancelled")
       /\ response' = Resp("reject", 200, rid)
       /\ UNCHANGED <<payments, documents, availability, rest>>

\* Faulty variant: a rental can be cancelled until it is confirmed
cancellable_until_paid(rental) ==
  rental.status \in {"pending", "approved", "payment_pending"}

\* RentalViewSet.cancel: rental.status in ['pending', 'approved']
cancellable(rental) ==
  rental.status \in {"pending", "approved"}

\* POST /rentals/{id}/cancel/ : the log row's old_status is read after the change
Cancel(user, rid, reason) ==
  IF ~Visible(user, rid)
  THEN /\ response' = Resp("cancel", 404, rid)
       /\ UNCHANGED <<rentals, status_updates, payments, documents, sales, availability, rest>>
  ELSE IF ~has_customer_profile(user)
  THEN /\ response' = Resp("cancel", 403, rid)
       /\ UNCHANGED <<rentals, status_updates, payments, documents, sales, availability, rest>>
  ELSE IF ~cancellable(rentals[rid])
  THEN /\ response' = Resp("cancel", 400, rid)
       /\ UNCHANGED <<rentals, status_updates, payments, documents, sales, availability, rest>>
  ELSE LET changed == [rentals[rid] EXCEPT
                         !.status = "cancelled", !.cancelled_at = TRUE,
                         !.cancellation_reason = reason_or(reason, "Cancelled by customer")]
       IN /\ LogRoom(rid)
          /\ SaveRental(rid, changed)
          /\ LogStatus(rid, changed.status, "cancelled")
          /\ response' = Resp("cancel", 200, rid)
          /\ UNCHANGED <<payments, documents, availability, rest>>

\* ------------------------------------------------------------------ payments
\* Answers of the Ziina gateway to get_payment_status; "error" is success = false
GatewayStatuses ==
  {"completed", "requires_payment_instrument", "requires_user_action", "failed"}
GatewayAnswers == GatewayStatuses \cup {"error"}

PaymentsWhere(rid, methods, statuses) ==
  {i \in 1..Len(payments) :
     /\ payments[i].rental = rid
     /\ payments[i].payment_method \in methods
     /\ payments[i].payment_status \in statuses}

PAYMENT_STATUS_CHOICES ==
  {"pending", "processing", "completed", "failed", "refunded", "partially_refunded"}

\* queryset.first(): the row with the smallest primary key, 0 when there is none
First(ids) == IF ids = {} THEN 0 ELSE CHOOSE i \in ids : \A j \in ids : i <= j

\* POST /rentals/{id}/upload_payment_receipt/ ; payment_id = 0 stands for "not given"
UploadPaymentReceipt(user, rid, payment_id) ==
  IF ~Visible(user, rid)
  THEN /\ response' = Resp("upload_payment_receipt", 404, rid)
       /\ UNCHANGED <<rentals, status_updates, payments, documents, sales, availability, rest>>
  ELSE IF ~has_company_profile(user) \/ rentals[rid].seller # user
  THEN /\ response' = Resp("upload_payment_receipt", 403, rid)
       /\ UNCHANGED <<rentals, status_updates, payments, documents, sales, availability, rest>>
  ELSE IF payment_id # 0 /\ ~(payment_id \in 1..Len(payments) /\ payments[payment_id].rental = rid)
  THEN /\ response' = Resp("upload_payment_receipt", 404, rid)
       /\ UNCHANGED <<rentals, status_updates, payments, documents, sales, availability, rest>>
  ELSE LET existing == IF payment_id # 0 THEN payment_id
                       ELSE First(PaymentsWhere(rid, {"cash_on_delivery"}, PAYMENT_STATUS_CHOICES))
           completed == [rental |-> rid, payment_method |-> "cash_on_delivery",
                         payment_status |-> "completed", gateway_reference |-> 0,
                         completed_at |-> TRUE]
       IN /\ IF existing = 0
             THEN /\ Len(payments) < MaxPayments
                  /\ payments' = Append(payments, completed)
             ELSE payments' = [payments EXCEPT ![existing].payment_status = "completed",
                                               ![existing].completed_at = TRUE]
          /\ IF rentals[rid].status = "approved"
             THEN /\ LogRoom(rid)
                  /\ SaveRental(rid, [rentals[rid] EXCEPT !.status = "confirmed"])
                  /\ LogStatus(rid, "approved", "confirmed")
             ELSE UNCHANGED <<rentals, sales, status_updates>>
          /\ response' = Resp("upload_payment_receipt", 200, rid)
          /\ UNCHANGED <<documents, availability, rest>>

\* Faulty variant: every rental that is not cancelled can be paid
payable_unless_cancelled(rental) ==
  rental.status # "cancelled"

\* InitiatePaymentView.post: the rental is in a payable state
payable(rental) ==
  rental.status \in {"approved", "payment_pending"}

\* POST /payments/ziina/initiate/ ; rid = 0 stands for a request without rental_id.
\* gw_status is the gateway's answer about an existing session, gw_created whether
\* it accepts a new payment intent.
InitiatePayment(user, rid, gw_status, gw_created) ==
  IF rid = 0
  THEN /\ response' = Resp("initiate_payment", 400, rid)
       /\ UNCHANGED <<rentals, status_updates, payments, documents, sales, availability, rest>>
  ELSE IF rid \notin RentalIds
  THEN /\ response' = Resp("initiate_payment", 404, rid)
       /\ UNCHANGED <<rentals, status_updates, payments, documents, sales, availability, rest>>
  ELSE IF rentals[rid].customer # user
  THEN /\ response' = Resp("initiate_payment", 403, rid)
       /\ UNCHANGED <<rentals, status_updates, payments, documents, sales, availability, rest>>
  ELSE IF ~payable(rentals[rid])
  THEN /\ response' = Resp("initiate_payment", 400, rid)
       /\ UNCHANGED <<rentals, status_updates, payments, documents, sales, availability, rest>>
  ELSE LET existing == First(PaymentsWhere(rid, {"card"}, {"pending", "processing"}))
       IN IF /\ existing # 0
             /\ payments[existing].gateway_reference # 0
             /\ gw_status \in GatewayStatuses
             /\ gw_status # "completed"
          THEN /\ response' = Resp("initiate_payment", 200, rid)
               /\ UNCHANGED <<rentals, status_updates, payments, documents, sales, availability, rest>>
          ELSE IF ~gw_created
          THEN /\ response' = Resp("initiate_payment", 502, rid)
               /\ UNCHANGED <<rentals, status_updates, payments, documents, sales, availability, rest>>
          ELSE /\ Len(payments) < MaxPayments
               /\ payments' = Append(payments,
                    [rental |-> rid, payment_method |-> "card",
                     payment_status |-> "pending",
                     gateway_reference |-> Len(payments) + 1,
                     completed_at |-> FALSE])
               /\ IF rentals[rid].status = "approved"
                  THEN SaveRental(rid, [rentals[rid] EXCEPT !.status = "payment_pending"])
                  ELSE UNCHANGED <<rentals, sales>>
               /\ response' = Resp("initiate_payment", 200, rid)
               /\ UNCHANGED <<status_updates, documents, availability, rest>>

\* Faulty variant: a completed payment leaves the rental as it is
confirmed_by_payment_not(rental) ==
  rental

\* VerifyPaymentView.post, gateway status 'completed': rental.status = 'confirmed'
confirmed_by_payment(rental) ==
  [rental EXCEPT !.status = "confirmed"]

PaymentsByReference(payment_id, rid) ==
  {i \in 1..Len(payments) :
     /\ payments[i].gateway_reference = payment_id
     /\ (rid # 0 => payments[i].rental = rid)}

\* POST /payments/ziina/verify/ ; payment_id = 0 and rid = 0 stand for "not given"
VerifyPayment(user, payment_id, rid, gw_status) ==
  IF payment_id = 0
  THEN /\ response' = Resp("verify_payment", 400, rid)
       /\ UNCHANGED <<rentals, status_updates, payments, documents, sales, availability, rest>>
  ELSE IF PaymentsByReference(payment_id, rid) = {}
  THEN /\ response' = Resp("verify_payment", 404, rid)
       /\ UNCHANGED <<rentals, status_updates, payments, documents, sales, availability, rest>>
  ELSE LET pid == First(PaymentsByReference(payment_id, rid))
           prid == payments[pid].rental
       IN IF rentals[prid].customer # user
          THEN /\ response' = Resp("verify_payment", 403, prid)
               /\ UNCHANGED <<rentals, status_updates, payments, documents, sales, availability, rest>>
          ELSE IF gw_status = "error"
          THEN /\ response' = Resp("verify_payment", 502, prid)
               /\ UNCHANGED <<rentals, status_updates, payments, documents, sales, availability, rest>>
          ELSE IF gw_status = "completed"
          THEN /\ payments' = [payments EXCEPT ![pid].payment_status = "completed",
                                               ![pid].completed_at = TRUE]
               /\ SaveRental(prid, confirmed_by_payment(rentals[prid]))
               /\ response' = Resp("verify_payment", 200, prid)
               /\ UNCHANGED <<status_updates, documents, availability, rest>>
          ELSE /\ payments' = [payments EXCEPT ![pid].payment_status =
                    CASE gw_status = "requires_payment_instrument" -> "pending"
                      [] gw_status = "requires_user_action" -> "processing"
                      [] OTHER -> "failed"]
               /\ response' = Resp("verify_payment", 200, prid)
               /\ UNCHANGED <<rentals, status_updates, documents, sales, availability, rest>>

\* Django admin, change form of a payment: payment_status is an editable field,
\* completed_at is read-only
AdminSavePayment(payment_id, payment_status) ==
  /\ payment_id \in 1..Len(payments)
  /\ payments' = [payments EXCEPT ![payment_id].payment_status = payment_status]
  /\ response' = Resp("admin_save_payment", 200, payments[payment_id].rental)
  /\ UNCHANGED <<rentals, status_updates, documents, sales, availability, rest>>

\* ------------------------------------------------------------------ generic update
\* Bodies of PATCH /rentals/{id}/ : `fields` names the fields the request carries
LateFees == {0, 1230}
StatusPatchBodies ==
  {[fields |-> {"status"}, status |-> t, late_fees |-> 0, total_amount |-> 0] :
     t \in STATUS_CHOICES}
FeesPatchBodies ==
  {[fields |-> {"late_fees", "total_amount"}, status |-> "", late_fees |-> f,
    total_amount |-> 10] : f \in LateFees}
TotalsPatchBodies ==
  {[fields |-> {"total_amount"}, status |-> "", late_fees |-> 0, total_amount |-> 10]}
PatchBodies == StatusPatchBodies \cup FeesPatchBodies \cup TotalsPatchBodies

\* ModelSerializer.update: every field of the body is set on the instance
ApplyPatch(rental, body) ==
  [rental EXCEPT
     !.status = IF "status" \in body.fields THEN body.status ELSE @,
     !.late_fees = IF "late_fees" \in body.fields THEN body.late_fees ELSE @,
     !.total_amount = IF "total_amount" \in body.fields THEN body.total_amount ELSE @]

\* PATCH /rentals/{id}/ : RentalViewSet.partial_update with RentalDetailSerializer
PatchRental(user, rid, body) ==
  IF ~Visible(user, rid)
  THEN /\ response' = Resp("partial_update", 404, rid)
       /\ UNCHANGED <<rentals, status_updates, payments, documents, sales, availability, rest>>
  ELSE /\ SaveRental(rid, ApplyPatch(rentals[rid], body))
       /\ response' = Resp("partial_update", 200, rid)
       /\ UNCHANGED <<status_updates, payments, documents, availability, rest>>

\* ------------------------------------------------------------------ sale administration
CommissionPcts == {10, 20}
PAYOUT_STATUS_CHOICES == {"pending", "processing", "completed", "failed", "on_hold"}
OtherRevenues == {100000}

\* RentalSaleAdmin change form: an existing sale is edited and saved
AdminSaveSale(sid, pct, payout_status, total_revenue) ==
  /\ sid \in 1..Len(sales)
  /\ sales' = [sales EXCEPT ![sid] = SaleRow(RentalSale_save(
                 [@ EXCEPT !.platform_commission_percentage = pct,
                           !.payout_status = payout_status,
                           !.total_revenue = total_revenue], TRUE))]
  /\ response' = Resp("admin_save_sale", 200, sales[sid].rental)
  /\ UNCHANGED <<rentals, status_updates, payments, documents, availability, rest>>

\* ------------------------------------------------------------------ documents
MaxDocuments == 3

\* The value of `listing` before any answer of the documents endpoint
NoListing == [rental |-> 0, user |-> "", documents |-> {}]

\* rental.payments.filter(payment_status='completed').exists()
completed_payment(rid) ==
  \E p \in 1..Len(payments) :
     payments[p].rental = rid /\ payments[p].payment_status = "completed"

\* Faulty variant: every document that requires payment is reported as locked
get_is_locked_always(doc) ==
  doc.requires_payment

\* RentalDocumentSerializer.get_is_locked
get_is_locked(doc) ==
  IF ~doc.requires_payment THEN FALSE ELSE ~completed_payment(doc.rental)

\* RentalDocumentSerializer: the entry of document row i; file_url is TRUE when
\* the entry carries a URL (get_file_url gives one whenever the row has a file)
DocumentEntry(i) ==
  [id |-> i, document_type |-> documents[i].document_type,
   file_url |-> documents[i].file,
   visible_to_customer |-> documents[i].visible_to_customer,
   requires_payment |-> documents[i].requires_payment,
   is_locked |-> get_is_locked(documents[i])]

\* GET /rentals/{id}/documents/
GetDocuments(user, rid) ==
  IF ~Visible(user, rid)
  THEN /\ response' = Resp("documents", 404, rid)
       /\ UNCHANGED <<rentals, status_updates, payments, documents, sales, availability, rest>>
  ELSE IF ~(has_customer_profile(user) /\ rentals[rid].customer = user)
          /\ ~(has_company_profile(user) /\ rentals[rid].seller = user)
  THEN /\ response' = Resp("documents", 403, rid)
       /\ UNCHANGED <<rentals, status_updates, payments, documents, sales, availability, rest>>
  ELSE LET of_rental == {i \in 1..Len(documents) : documents[i].rental = rid}
           shown == IF has_customer_profile(user) /\ rentals[rid].customer = user
                    THEN {i \in of_rental : documents[i].visible_to_customer}
                    ELSE of_rental
       IN /\ listing' = [rental |-> rid, user |-> user,
                         documents |-> {DocumentEntry(i) : i \in shown}]
          /\ response' = Resp("documents", 200, rid)
          /\ UNCHANGED <<rentals, status_updates, payments, documents, sales, availability,
                         equipment, creating, sale_create_raises, beside>>

DOCUMENT_TYPE_CHOICES ==
  {"rental_agreement", "operating_manual", "insurance_document", "delivery_receipt",
   "return_receipt", "damage_report", "invoice", "payment_receipt", "other"}

\* POST /rentals/{id}/upload_document/ ; complete is whether document_type, title
\* and a file of at most 10 MB are all given
UploadDocument(user, rid, document_type, visible_to_customer, complete) ==
  IF ~Visible(user, rid)
  THEN /\ response' = Resp("upload_document", 404, rid)
       /\ UNCHANGED <<rentals, status_updates, payments, documents, sales, availability, rest>>
  ELSE IF ~has_customer_profile(user) /\ ~has_company_profile(user)
  THEN /\ response' = Resp("upload_document", 403, rid)
       /\ UNCHANGED <<rentals, status_updates, payments, documents, sales, availability, rest>>
  ELSE IF ~complete
  THEN /\ response' = Resp("upload_document", 400, rid)
       /\ UNCHANGED <<rentals, status_updates, payments, documents, sales, availability, rest>>
  ELSE /\ Len(documents) < MaxDocuments
       /\ documents' = Append(documents,
            [rental |-> rid, document_type |-> document_type, file |-> TRUE,
             visible_to_customer |-> visible_to_customer, requires_payment |-> FALSE])
       /\ response' = Resp("upload_document", 201, rid)
       /\ UNCHANGED <<rentals, status_updates, payments, sales, availability, rest>>

\* ------------------------------------------------------------------ reviews
MaxReviews == 2

\* hasattr(rental, 'review')
has_review(rid) ==
  \E i \in 1..Len(reviews) : reviews[i].rental = rid

\* Faulty variant: a rental on its way back can be reviewed too
reviewable_once_returning(rental) ==
  rental.status \in {"returning", "completed"}

\* RentalViewSet.submit_review: rental.status == 'completed'
reviewable(rental) ==
  rental.status = "completed"

\* RentalReview.save: the average of the three ratings, in hundredths
overall_rating(equipment_rating, service_rating, delivery_rating) ==
  ((equipment_rating + service_rating + delivery_rating) * 200 + 3) \div 6

\* Bodies of a review: rental = 0 stands for a body without rental
Ratings == {0, 4, 5}
ReviewBodies ==
  {[rental |-> r, equipment_rating |-> a, service_rating |-> 4, delivery_rating |-> 5] :
     r \in 0..MaxRentals, a \in Ratings}

\* RentalReviewSerializer.is_valid: rental is a writable, required field that
\* must name a rental without review; each rating is between 1 and 5
ReviewBodyValid(body) ==
  /\ body.rental \in RentalIds
  /\ ~has_review(body.rental)
  /\ \A rating \in {body.equipment_rating, body.service_rating, body.delivery_rating} :
        rating \in 1..5

\* POST /rentals/{id}/submit_review/ ; save(rental=..., customer=...) stores the
\* rental of the URL, whatever rental the body names
SubmitReview(user, rid, body) ==
  IF ~Visible(user, rid)
  THEN /\ response' = Resp("submit_review", 404, rid)
       /\ UNCHANGED <<rentals, status_updates, payments, documents, sales, availability, rest>>
  ELSE IF ~has_customer_profile(user)
  THEN /\ response' = Resp("submit_review", 403, rid)
       /\ UNCHANGED <<rentals, status_updates, payments, documents, sales, availability, rest>>
  ELSE IF ~reviewable(rentals[rid]) \/ has_review(rid) \/ ~ReviewBodyValid(body)
  THEN /\ response' = Resp("submit_review", 400, rid)
       /\ UNCHANGED <<rentals, status_updates, payments, documents, sales, availability, rest>>
  ELSE /\ Len(reviews) < MaxReviews
       /\ reviews' = Append(reviews,
            [rental |-> rid, customer |-> user,
             equipment_rating |-> body.equipment_rating,
             service_rating |-> body.service_rating,
             delivery_rating |-> body.delivery_rating,
             overall_rating |-> overall_rating(body.equipment_rating,
                                               body.service_rating, body.delivery_rating)])
       /\ response' = Resp("submit_review", 201, rid)
       /\ UNCHANGED <<rentals, status_updates, payments, documents, sales, availability,
                      equipment, creating, sale_create_raises, listing, ziina, images, accounts>>

\* ------------------------------------------------------------------ gateway client
\* What the HTTP request of a call ends in: a timeout, a connection error, or
\* a response with its status code and body.  body is "unparsable" (not JSON),
\* "array" (JSON, but no object) or "object"; message tells whether the object
\* has a 'message' entry, status_field is its 'status' entry; json_error is the
\* class response.json() raises with, which depends on the requests version.
HttpStatuses == {200, 201, 400, 500}
HttpOutcomes ==
  {[kind |-> k, status_code |-> 0, body |-> "", message |-> FALSE, status_field |-> "",
    json_error |-> ""] : k \in {"timeout", "connection_error"}}
  \cup {[kind |-> "response", status_code |-> c, body |-> "unparsable", message |-> FALSE,
          status_field |-> "", json_error |-> j] :
          c \in HttpStatuses, j \in {"JSONDecodeError", "ValueError"}}
  \cup {[kind |-> "response", status_code |-> c, body |-> "array", message |-> FALSE,
          status_field |-> "", json_error |-> ""] : c \in HttpStatuses}
  \cup {[kind |-> "response", status_code |-> c, body |-> "object", message |-> m,
          status_field |-> f, json_error |-> ""] :
          c \in HttpStatuses, m \in BOOLEAN, f \in {"completed", "pending", "failed"}}

ZiinaMethods == {"create_payment_intent", "get_payment_status", "is_payment_completed"}

\* The classes of requests.exceptions among the exceptions of the model
RequestExceptions == {"Timeout", "ConnectionError", "JSONDecodeError"}

Returned(value) == [raised |-> "", value |-> value]
Raised(exception) ==
  [raised |-> exception,
   value |-> [success |-> FALSE, error |-> "", status |-> "", is_completed |-> FALSE]]
Failure(error) ==
  Returned([success |-> FALSE, error |-> error, status |-> "", is_completed |-> FALSE])

\* The body of the try block: requests.post / requests.get has ended in
\* `http`; ok is the set of status codes taken as success, fallback the error
\* text used when the body has no 'message'
try_block(http, ok, fallback) ==
  IF http.kind = "timeout" THEN Raised("Timeout")
  ELSE IF http.kind = "connection_error" THEN Raised("ConnectionError")
  ELSE IF http.body = "unparsable" THEN Raised(http.json_error)
  ELSE IF http.body = "array" THEN Raised("AttributeError")
  ELSE IF http.status_code \in ok
  THEN Returned([success |-> TRUE, error |-> "", status |-> http.status_field,
                 is_completed |-> http.status_field = "completed"])
  ELSE Failure(IF http.message THEN "message of the gateway" ELSE fallback)

\* Faulty variant: only the exceptions of requests are caught
except_requests_only(attempt, timeout_error, request_error) ==
  IF attempt.raised = "" THEN attempt
  ELSE IF attempt.raised = "Timeout" THEN Failure(timeout_error)
  ELSE IF attempt.raised \in RequestExceptions THEN Failure(request_error)
  ELSE attempt

\* except Timeout / except RequestException / except Exception
except_clauses(attempt, timeout_error, request_error) ==
  IF attempt.raised = "" THEN attempt
  ELSE IF attempt.raised = "Timeout" THEN Failure(timeout_error)
  ELSE IF attempt.raised \in RequestExceptions THEN Failure(request_error)
  ELSE Failure("An unexpected error occurred.")

\* ZiinaClient.create_payment_intent, given what its HTTP request ended in
create_payment_intent(http) ==
  except_clauses(try_block(http, {200, 201}, "Payment creation failed"),
                 "Payment gateway timeout. Please try again.",
                 "Payment gateway unavailable. Please try again later.")

\* ZiinaClient.get_payment_status
get_payment_status(http) ==
  except_clauses(try_block(http, {200}, "Could not retrieve payment status"),
                 "Payment gateway timeout.",
                 "Payment gateway unavailable.")

\* ZiinaClient.is_payment_completed: result.get('is_completed', False); the
\* value is the boolean, kept in is_completed
is_payment_completed(http) ==
  LET result == get_payment_status(http)
  IN IF result.raised # "" THEN result
     ELSE Returned([success |-> result.value.success, error |-> "", status |-> "",
                    is_completed |-> result.value.is_completed])

NoCall ==
  [pc |-> "idle", method |-> "", requests |-> 0, http |-> CHOOSE h \in HttpOutcomes : TRUE,
   result |-> Failure("")]

\* A method of the client is called and sends its HTTP request
ZiinaCall(method) ==
  /\ ziina.pc = "idle"
  /\ ziina' = [NoCall EXCEPT !.pc = "sent", !.method = method, !.requests = 1]
  /\ UNCHANGED <<rentals, status_updates, payments, documents, sales, response,
                 availability, equipment, creating, sale_create_raises, listing, reviews, images, accounts>>

\* The HTTP request ends and the method returns or raises; no request follows
ZiinaReturn(http) ==
  /\ ziina.pc = "sent"
  /\ ziina' = [ziina EXCEPT
        !.pc = "idle",
        !.http = http,
        !.result = CASE ziina.method = "create_payment_intent" -> create_payment_intent(http)
                     [] ziina.method = "get_payment_status" -> get_payment_status(http)
                     [] OTHER -> is_payment_completed(http)]
  /\ UNCHANGED <<rentals, status_updates, payments, documents, sales, response,
                 availability, equipment, creating, sale_create_raises, listing, reviews, images, accounts>>

\* ------------------------------------------------------------------ equipment images
MaxImagesPerEquipment == 7
MaxImageRows == 8
MaxOtherImages == 1

ImagesOf(table, e) == {i \in 1..Len(table) : table[i].equipment = e}

\* Faulty variant: the other primary images keep their flag
clear_primary_skipped(table, e, pk) ==
  table

\* filter(equipment=..., is_primary=True).exclude(pk=self.pk).update(is_primary=False)
clear_primary(table, e, pk) ==
  [i \in 1..Len(table) |->
     IF table[i].equipment = e /\ i # pk
     THEN [table[i] EXCEPT !.is_primary = FALSE]
     ELSE table[i]]

\* aggregate(Max('display_order')) over the images of the equipment, 0 for none
max_display_order(table, e) ==
  IF ImagesOf(table, e) = {} THEN 0
  ELSE CHOOSE n \in {table[i].display_order : i \in ImagesOf(table, e)} :
         \A i \in ImagesOf(table, e) : table[i].display_order <= n

\* display_order as EquipmentImage.save settles it
settled_display_order(table, e, display_order) ==
  LET assigned == IF display_order < 1 THEN max_display_order(table, e) + 1
                  ELSE display_order
  IN IF assigned > 7 THEN 7 ELSE assigned

\* unique_together = ['equipment', 'display_order']: the row can be written
unique_display_order(table, e, display_order, pk) ==
  \A i \in ImagesOf(table, e) : i # pk => table[i].display_order # display_order

\* EquipmentImage.save of the instance with primary key pk (0 for a new one)
\* outside a transaction: the table afterwards and the exception raised
EquipmentImage_save(table, pk, e, is_primary, display_order) ==
  IF pk = 0 /\ Cardinality(ImagesOf(table, e)) >= MaxImagesPerEquipment
  THEN [table |-> table, raised |-> "ValueError"]
  ELSE LET cleared == IF is_primary THEN clear_primary(table, e, pk) ELSE table
           order == settled_display_order(cleared, e, display_order)
           row == [equipment |-> e, is_primary |-> is_primary, display_order |-> order]
       IN IF ~unique_display_order(cleared, e, order, pk)
          THEN [table |-> cleared, raised |-> "IntegrityError"]
          ELSE [table |-> IF pk = 0 THEN Append(cleared, row)
                          ELSE [cleared EXCEPT ![pk] = row],
                raised |-> ""]

\* display_order given to a save: 0 stands for none (assigned by save)
DisplayOrders == {0, 1, 9}

\* A new image is saved
CreateImage(e, is_primary, display_order) ==
  LET saved == EquipmentImage_save(images, 0, e, is_primary, display_order)
  IN /\ Len(images) < MaxImageRows \/ saved.raised # ""
     /\ images' = saved.table
     /\ response' = RespD("create_image", 0, 0, saved.raised)
     /\ UNCHANGED <<rentals, status_updates, payments, documents, sales, availability,
                    equipment, creating, sale_create_raises, listing, reviews, ziina, accounts>>

\* An image of the table is changed and saved
UpdateImage(pk, e, is_primary, display_order) ==
  LET saved == EquipmentImage_save(images, pk, e, is_primary, display_order)
  IN /\ pk \in 1..Len(images)
     /\ images' = saved.table
     /\ response' = RespD("update_image", 0, pk, saved.raised)
     /\ UNCHANGED <<rentals, status_updates, payments, documents, sales, availability,
                    equipment, creating, sale_create_raises, listing, reviews, ziina, accounts>>

\* ------------------------------------------------------------------ login by OTP
MaxOtpCodes == 3
MaxNow == 30
TickMinutes == 10
OtpMinutes == 10

\* The users with an account, by their e-mail address
Accounts == {"c1", "s1"}
\* Addresses a request can carry: "" stands for none
Emails == Accounts \cup {"", "nobody"}
\* Values OTPCode.generate_code can return, and values a request can carry
Codes == {"111111", "222222"}
GivenCodes == Codes \cup {""}

\* OTPCode.is_expired
is_expired(otp) == now > otp.expires_at

\* Faulty variant: the earlier codes stay unused
invalidate_unused_skipped(table, user) ==
  table

\* OTPCode.objects.filter(user=user, is_used=False).update(is_used=True)
invalidate_unused(table, user) ==
  [i \in 1..Len(table) |->
     IF table[i].user = user /\ ~table[i].is_used
     THEN [table[i] EXCEPT !.is_used = TRUE]
     ELSE table[i]]

\* POST /api/accounts/otp/request/ ; code is what generate_code returns
OTPRequest(email, code) ==
  IF email = ""
  THEN /\ response' = RespD("otp_request", 400, 0, email)
       /\ UNCHANGED <<rentals, status_updates, payments, documents, sales, availability, rest>>
  ELSE IF email \notin Accounts
  THEN /\ response' = RespD("otp_request", 200, 0, email)
       /\ UNCHANGED <<rentals, status_updates, payments, documents, sales, availability, rest>>
  ELSE /\ Len(otp_codes) < MaxOtpCodes
       /\ otp_codes' = Append(invalidate_unused(otp_codes, email),
            [user |-> email, code |-> code, expires_at |-> now + OtpMinutes,
             is_used |-> FALSE, purpose |-> "login"])
       /\ response' = RespD("otp_request", 200, 0, email)
       /\ UNCHANGED <<rentals, status_updates, payments, documents, sales, availability,
                      equipment, creating, sale_create_raises, listing, reviews, ziina,
                      images, now>>

\* filter(user=, code=, is_used=False, purpose='login').first() under the
\* ordering -created_at: the newest matching row, 0 for none
otp_entry(user, code) ==
  LET matching == {i \in 1..Len(otp_codes) :
                     /\ otp_codes[i].user = user
                     /\ otp_codes[i].code = code
                     /\ ~otp_codes[i].is_used
                     /\ otp_codes[i].purpose = "login"}
  IN IF matching = {} THEN 0 ELSE CHOOSE i \in matching : \A j \in matching : j <= i

\* POST /api/accounts/otp/verify/ ; the answer names the row accepted
OTPVerify(email, code) ==
  IF email = "" \/ code = "" \/ email \notin Accounts \/ otp_entry(email, code) = 0
  THEN /\ response' = RespD("otp_verify", 400, 0, email)
       /\ UNCHANGED <<rentals, status_updates, payments, documents, sales, availability, rest>>
  ELSE IF is_expired(otp_codes[otp_entry(email, code)])
  THEN /\ response' = RespD("otp_verify", 400, 0, email)
       /\ UNCHANGED <<rentals, status_updates, payments, documents, sales, availability, rest>>
  ELSE /\ otp_codes' = [otp_codes EXCEPT ![otp_entry(email, code)].is_used = TRUE]
       /\ response' = RespD("otp_verify", 200, otp_entry(email, code), email)
       /\ UNCHANGED <<rentals, status_updates, payments, documents, sales, availability,
                      equipment, creating, sale_create_raises, listing, reviews, ziina,
                      images, now>>

\* Time passes
Tick ==
  /\ now < MaxNow
  /\ now' = now + TickMinutes
  /\ UNCHANGED <<rentals, status_updates, payments, documents, sales, response,
                 availability, equipment, creating, sale_create_raises, listing, reviews,
                 ziina, images, otp_codes>>

\* ------------------------------------------------------------------ equipment update
EQUIPMENT_STATUS_CHOICES == {"available", "maintenance", "rented", "reserved", "inactive"}

\* Bodies of PUT /equipment/{id}/ as far as the availability columns go
EquipmentBodies ==
  {[status |-> st, total_units |-> 5, available_units |-> a] :
     st \in {"available", "maintenance"}, a \in {4, 5}}

\* PUT /equipment/{id}/ : EquipmentViewSet.update with EquipmentUpdateSerializer.
\* A caller without company profile makes user.company_profile raise (500).
UpdateEquipment(user, e, body) ==
  IF ~has_company_profile(user)
  THEN /\ response' = Resp("update_equipment", 500, 0)
       /\ UNCHANGED <<rentals, status_updates, payments, documents, sales, availability, rest>>
  ELSE IF Equipment(e).seller_company # user
  THEN /\ response' = Resp("update_equipment", 400, 0)
       /\ UNCHANGED <<rentals, status_updates, payments, documents, sales, availability, rest>>
  ELSE /\ equipment' = [equipment EXCEPT ![e] = body]
       /\ response' = Resp("update_equipment", 200, 0)
       /\ UNCHANGED <<rentals, status_updates, payments, documents, sales, availability,
                      creating, sale_create_raises, listing, beside>>

\* ------------------------------------------------------------------ faults
\* The database starts or stops failing the insert of RentalSale rows
SaleCreationRaises(b) ==
  /\ sale_create_raises' = b
  /\ UNCHANGED <<rentals, status_updates, payments, documents, sales, response,
                 availability, equipment, creating, listing, beside>>

\* ------------------------------------------------------------------ specification
Init ==
  /\ rentals = <<>>
  /\ status_updates = <<>>
  /\ payments = <<>>
  /\ documents = <<>>
  /\ sales = <<>>
  /\ response = Resp("none", 0, 0)
  /\ availability = NoProbe
  /\ equipment = EquipmentListed
  /\ creating = [i \in Creators |-> NotCreating]
  /\ sale_create_raises = FALSE
  /\ listing = NoListing
  /\ reviews = <<>>
  /\ ziina = NoCall
  /\ images = <<>>
  /\ otp_codes = <<>>
  /\ now = 0

\* The workflow: every rental endpoint; the generic PATCH carries no status here
Next ==
  \/ \E u \in Users, e \in EquipmentIds, range \in WorkflowRanges, q \in Quantities :
        CreateRental(u, e, range, q, TRUE)
  \/ \E u \in Users, rid \in 1..MaxRentals, t \in STATUS_CHOICES : UpdateStatus(u, rid, t)
  \/ \E u \in Users, rid \in 1..MaxRentals : Approve(u, rid)
  \/ \E u \in Users, rid \in 1..MaxRentals : Reject(u, rid, NotGiven)
  \/ \E u \in Users, rid \in 1..MaxRentals : Cancel(u, rid, NotGiven)
  \/ \E u \in Users, rid \in 1..MaxRentals, pid \in 0..MaxPayments :
        UploadPaymentReceipt(u, rid, pid)
  \/ \E u \in Users, rid \in 0..MaxRentals, g \in GatewayAnswers, c \in BOOLEAN :
        InitiatePayment(u, rid, g, c)
  \/ \E u \in Users, pid \in 0..MaxPayments, rid \in 0..MaxRentals, g \in GatewayAnswers :
        VerifyPayment(u, pid, rid, g)
  \/ \E u \in Users, rid \in 1..MaxRentals, body \in TotalsPatchBodies :
        PatchRental(u, rid, body)

Spec == Init /\ [][Next]_vars

\* Status transitions: a rental is created, put into any status by the generic
\* PATCH, and moved by update_status
NextTransitions ==
  \/ \E u \in Users, e \in EquipmentIds, range \in WorkflowRanges, q \in Quantities :
        CreateRental(u, e, range, q, TRUE)
  \/ \E u \in Users, rid \in 1..MaxRentals, body \in StatusPatchBodies \cup TotalsPatchBodies :
        PatchRental(u, rid, body)
  \/ \E u \in Users, rid \in 1..MaxRentals, t \in STATUS_CHOICES : UpdateStatus(u, rid, t)

SpecTransitions == Init /\ [][NextTransitions]_vars

\* Money: rentals of every shape are created, patched (status, fees, totals) and
\* completed, and their sales are edited in the admin
NextMoney ==
  \/ \E u \in Users, e \in EquipmentIds, range \in DateRanges, q \in Quantities,
        p \in BOOLEAN : CreateRental(u, e, range, q, p)
  \/ \E u \in Users, rid \in 1..MaxRentals, body \in PatchBodies : PatchRental(u, rid, body)
  \/ \E sid \in 1..MaxRentals, pct \in CommissionPcts, ps \in PAYOUT_STATUS_CHOICES :
        \E rev \in OtherRevenues \cup {sales[i].total_revenue : i \in 1..Len(sales)} :
          AdminSaveSale(sid, pct, ps, rev)

SpecMoney == Init /\ [][NextMoney]_vars

\* Availability: the rentals table holds up to MaxAvailRows rentals in any status
\* (each one a rental that creation accepts, moved to its status afterwards), and
\* is_available_on_dates is asked about every equipment, range and quantity
MaxAvailRows == 2
AvailRanges == {<<1, 2>>, <<3, 4>>}
ProbeRanges == {<<2, 3>>, <<3, 3>>, <<5, 6>>}
ProbeQuantities == {1, 4, 5}

AvailRows ==
  {[NewRental("c1", e, range[1], range[2], q, TRUE) EXCEPT !.status = s] :
     e \in EquipmentIds, range \in AvailRanges, q \in Quantities, s \in STATUS_CHOICES}

AvailTables ==
  UNION {[1..n -> {r \in AvailRows : r.quantity <= Equipment(r.equipment).available_units}] :
           n \in 0..MaxAvailRows}

InitAvail ==
  /\ equipment = EquipmentListed
  /\ rentals \in AvailTables
  /\ status_updates = <<>>
  /\ payments = <<>>
  /\ documents = <<>>
  /\ sales = <<>>
  /\ response = Resp("none", 0, 0)
  /\ availability = NoProbe
  /\ creating = [i \in Creators |-> NotCreating]
  /\ sale_create_raises = FALSE
  /\ listing = NoListing
  /\ reviews = <<>>
  /\ ziina = NoCall
  /\ images = <<>>
  /\ otp_codes = <<>>
  /\ now = 0

NextAvail ==
  \E e \in EquipmentIds, range \in ProbeRanges, q \in ProbeQuantities :
     ProbeAvailability(e, range[1], range[2], q)

SpecAvail == InitAvail /\ [][NextAvail]_vars

\* Concurrent creation: two requests are validated and stored in any order
\* while rentals are confirmed through update_status
RaceRanges == {<<1, 2>>, <<2, 3>>}

NextRace ==
  \/ \E i \in Creators, u \in {"c1", "s1"}, e \in EquipmentIds, range \in RaceRanges :
        BeginCreate(i, u, e, range, 1, TRUE)
  \/ \E i \in Creators : FinishCreate(i)
  \/ \E u \in Sellers, rid \in 1..MaxRaceRentals : UpdateStatus(u, rid, "confirmed")

SpecRace == Init /\ [][NextRace]_vars

\* Inventory: one listing is rented, paid, completed and edited by its seller
InventoryGateway == {"completed", "failed"}
InventoryStatuses == {"confirmed", "completed", "cancelled"}
InventoryPatchBodies ==
  {[fields |-> {"status"}, status |-> "returning", late_fees |-> 0, total_amount |-> 0]}

NextInventory ==
  \/ \E u \in Users, range \in WorkflowRanges, q \in Quantities :
        CreateRental(u, "e1", range, q, TRUE)
  \/ \E u \in Users, rid \in 1..MaxRentals, t \in InventoryStatuses : UpdateStatus(u, rid, t)
  \/ \E u \in Users, rid \in 1..MaxRentals : Approve(u, rid)
  \/ \E u \in Users, rid \in 1..MaxRentals : Reject(u, rid, NotGiven)
  \/ \E u \in Users, rid \in 1..MaxRentals : Cancel(u, rid, NotGiven)
  \/ \E u \in Users, rid \in 1..MaxRentals : UploadPaymentReceipt(u, rid, 0)
  \/ \E u \in Users, rid \in 1..MaxRentals : InitiatePayment(u, rid, "failed", TRUE)
  \/ \E u \in Users, pid \in 1..MaxPayments, g \in InventoryGateway :
        VerifyPayment(u, pid, 0, g)
  \/ \E u \in Users, rid \in 1..MaxRentals, body \in InventoryPatchBodies :
        PatchRental(u, rid, body)
  \/ \E u \in Users, body \in EquipmentBodies : UpdateEquipment(u, "e1", body)

SpecInventory == Init /\ [][NextInventory]_vars

\* Faults: a rental is completed, by update_status or by the generic PATCH,
\* while the creation of its sale fails or not
FaultPatchBodies ==
  {[fields |-> {"status"}, status |-> t, late_fees |-> 0, total_amount |-> 0] :
     t \in {"returning", "completed", "delivered"}}

NextFaults ==
  \/ \E u \in Users, e \in EquipmentIds, q \in Quantities :
        CreateRental(u, e, <<1, 2>>, q, TRUE)
  \/ \E u \in Users, rid \in 1..MaxRentals, body \in FaultPatchBodies \cup TotalsPatchBodies :
        PatchRental(u, rid, body)
  \/ \E u \in Users, rid \in 1..MaxRentals, t \in {"completed", "in_progress"} :
        UpdateStatus(u, rid, t)
  \/ \E b \in BOOLEAN : SaleCreationRaises(b)

SpecFaults == Init /\ [][NextFaults]_vars

\* Documents: rentals of a listing with and without an operating manual are
\* created and paid, payments are verified and edited in the admin, documents
\* are uploaded, and the documents are listed
DocumentTypes == {"other"}
DocumentsGateway == {"completed", "failed", "error"}
AdminPaymentStatuses == {"completed", "refunded"}

NextDocuments ==
  \/ \E u \in Users, e \in EquipmentIds : CreateRental(u, e, <<1, 2>>, 1, TRUE)
  \/ \E u \in Users, rid \in 1..MaxRentals, t \in DocumentTypes, v \in BOOLEAN,
        complete \in BOOLEAN : UploadDocument(u, rid, t, v, complete)
  \/ \E u \in Users, rid \in 1..MaxRentals : UploadPaymentReceipt(u, rid, 0)
  \/ \E u \in Users, rid \in 1..MaxRentals : InitiatePayment(u, rid, "failed", TRUE)
  \/ \E u \in Users, pid \in 1..MaxPayments, g \in DocumentsGateway :
        VerifyPayment(u, pid, 0, g)
  \/ \E pid \in 1..MaxPayments, ps \in AdminPaymentStatuses : AdminSavePayment(pid, ps)
  \/ \E u \in Users, rid \in 1..MaxRentals : GetDocuments(u, rid)

SpecDocuments == Init /\ [][NextDocuments]_vars

\* Payments: a rental is created, approved or cancelled, and card payments are
\* initiated and verified by every user with every answer of the gateway
NextPayments ==
  \/ \E u \in Users, q \in Quantities : CreateRental(u, "e1", <<1, 2>>, q, TRUE)
  \/ \E u \in Users, rid \in 1..MaxRentals : Approve(u, rid)
  \/ \E u \in Users, rid \in 1..MaxRentals : Cancel(u, rid, NotGiven)
  \/ \E u \in Users, rid \in 0..MaxRentals, g \in GatewayAnswers, c \in BOOLEAN :
        InitiatePayment(u, rid, g, c)
  \/ \E u \in Users, pid \in 0..MaxPayments, rid \in 0..MaxRentals, g \in GatewayAnswers :
        VerifyPayment(u, pid, rid, g)

SpecPayments == Init /\ [][NextPayments]_vars

\* Decisions: a rental in any status is approved, rejected and cancelled by
\* every user, with and without a reason
NextDecisions ==
  \/ \E u \in Users, e \in EquipmentIds, q \in Quantities :
        CreateRental(u, e, <<1, 2>>, q, TRUE)
  \/ \E u \in Users, rid \in 1..MaxRentals, body \in StatusPatchBodies :
        PatchRental(u, rid, body)
  \/ \E u \in Users, rid \in 1..MaxRentals : Approve(u, rid)
  \/ \E u \in Users, rid \in 1..MaxRentals, reason \in Reasons : Reject(u, rid, reason)
  \/ \E u \in Users, rid \in 1..MaxRentals, reason \in Reasons : Cancel(u, rid, reason)

SpecDecisions == Init /\ [][NextDecisions]_vars

\* Intake: creation requests of every shape arrive while the stored rental is
\* confirmed or cancelled and the sellers edit their listings
IntakePatchBodies ==
  {[fields |-> {"status"}, status |-> t, late_fees |-> 0, total_amount |-> 0] :
     t \in {"confirmed", "cancelled"}}

NextIntake ==
  \/ \E u \in Users, e \in EquipmentIds, range \in DateRanges, q \in Quantities :
        CreateRental(u, e, range, q, TRUE)
  \/ \E u \in Users, rid \in 1..MaxRentals, body \in IntakePatchBodies :
        PatchRental(u, rid, body)
  \/ \E u \in Users, e \in EquipmentIds, body \in EquipmentBodies :
        UpdateEquipment(u, e, body)

SpecIntake == Init /\ [][NextIntake]_vars

\* Reviews: a rental is created, put into any status, completed, and reviewed
\* by every user with every body
NextReviews ==
  \/ \E u \in Users, e \in EquipmentIds : CreateRental(u, e, <<1, 2>>, 1, TRUE)
  \/ \E u \in Users, rid \in 1..MaxRentals, body \in StatusPatchBodies :
        PatchRental(u, rid, body)
  \/ \E u \in Users, rid \in 1..MaxRentals : UpdateStatus(u, rid, "completed")
  \/ \E u \in Users, rid \in 1..MaxRentals, body \in ReviewBodies :
        SubmitReview(u, rid, body)

SpecReviews == Init /\ [][NextReviews]_vars

\* Gateway client: each method is called and its HTTP request ends in every way
NextZiina ==
  \/ \E method \in ZiinaMethods : ZiinaCall(method)
  \/ \E http \in HttpOutcomes : ZiinaReturn(http)

SpecZiina == Init /\ [][NextZiina]_vars

\* Images: images of e1 are created up to the limit and beyond, an image of e2
\* is created, and images are saved again as primary
NextImages ==
  \/ \E p \in BOOLEAN, o \in DisplayOrders : CreateImage("e1", p, o)
  \/ \E p \in BOOLEAN :
        /\ Cardinality(ImagesOf(images, "e2")) < MaxOtherImages
        /\ CreateImage("e2", p, 0)
  \/ \E pk \in 1..MaxImageRows, p \in BOOLEAN :
        /\ pk \in 1..Len(images)
        /\ UpdateImage(pk, images[pk].equipment, p, images[pk].display_order)
  \/ \E pk \in 1..MaxImageRows :
        /\ pk \in 1..Len(images)
        /\ images[pk].equipment = "e2"
        /\ UpdateImage(pk, "e1", images[pk].is_primary, 0)

SpecImages == Init /\ [][NextImages]_vars

\* Login by OTP: codes are requested and verified for every address while time
\* passes
NextOtp ==
  \/ \E email \in Emails, code \in Codes : OTPRequest(email, code)
  \/ \E email \in Emails, code \in GivenCodes : OTPVerify(email, code)
  \/ Tick

SpecOtp == Init /\ [][NextOtp]_vars

\* Booking: rentals are created one request after the other (a request is
\* stored before the next one is validated), approved, paid by card or in cash
\* and moved on through update_status, while the listings stay as they are
BookingQuantities == {1, 5}
BookingStatuses == {"confirmed", "cancelled"}

NextBooking ==
  \/ \E i \in Creators, e \in EquipmentIds, range \in RaceRanges, q \in BookingQuantities :
        /\ \A j \in Creators : creating[j].pc # "validated"
        /\ BeginCreate(i, "c1", e, range, q, TRUE)
  \/ \E i \in Creators : FinishCreate(i)
  \/ \E u \in Sellers, rid \in 1..MaxRaceRentals : Approve(u, rid)
  \/ \E rid \in 1..MaxRaceRentals : InitiatePayment("c1", rid, "failed", TRUE)
  \/ \E pid \in 1..MaxPayments : VerifyPayment("c1", pid, 0, "completed")
  \/ \E u \in Sellers, rid \in 1..MaxRaceRentals : UploadPaymentReceipt(u, rid, 0)
  \/ \E rid \in 1..MaxRaceRentals, new_status \in BookingStatuses :
        UpdateStatus("c1", rid, new_status)

SpecBooking == Init /\ [][NextBooking]_vars

\* ====================================================================== claims

C2_AutoApprovalAtCreation ==
  (response.op = "create" /\ response.code = 201) =>
     LET rid == response.rental
         rental == rentals[rid]
     IN /\ rental.quantity < 5 => (rental.status = "approved" /\ rental.approved_at)
        /\ rental.quantity >= 5 => (rental.status = "pending" /\ ~rental.approved_at)
        /\ Cardinality(UpdatesOf(rid)) = 1
        /\ \A i \in UpdatesOf(rid) :
              /\ status_updates[i].new_status = rental.status
              /\ status_updates[i].old_status = ""

\* A rental of exactly five units has just been created and waits for approval
C2_FiveUnitsPending ==
  /\ response.op = "create"
  /\ response.code = 201
  /\ rentals[response.rental].quantity = 5
  /\ rentals[response.rental].status = "pending"

\* The adjacency table as the pairs (S, T) it lists
AdjacencyPairs ==
  {<<"pending", "approved">>, <<"pending", "cancelled">>,
   <<"approved", "confirmed">>, <<"approved", "cancelled">>,
   <<"confirmed", "preparing">>, <<"confirmed", "cancelled">>,
   <<"preparing", "ready_for_pickup">>,
   <<"ready_for_pickup", "out_for_delivery">>, <<"ready_for_pickup", "delivered">>,
   <<"out_for_delivery", "delivered">>,
   <<"delivered", "in_progress">>, <<"delivered", "return_requested">>,
   <<"in_progress", "return_requested">>, <<"in_progress", "overdue">>,
   <<"return_requested", "returning">>,
   <<"returning", "completed">>}

\* C3: update_status moves a rental from S to T only when the table lists T for
\* S; for any other pair it answers 400, the rental row is left as it was and
\* no RentalStatusUpdate row is appended
C3_UpdateStatusFollowsTable ==
  [][(response'.op = "update_status" /\ response'.code # 404) =>
       LET rid == response'.rental
           S == rentals[rid].status
           T == response'.detail
       IN IF <<S, T>> \in AdjacencyPairs
          THEN /\ response'.code = 200
               /\ rentals'[rid].status = T
          ELSE /\ response'.code = 400
               /\ rentals' = rentals
               /\ status_updates' = status_updates
               /\ sales' = sales]_vars

\* A transition the table does not list (completed back to pending) was refused
C3_RefusedTransition ==
  /\ response.op = "update_status"
  /\ response.code = 400
  /\ response.detail = "pending"
  /\ rentals[response.rental].status = "completed"

\* The main status sequence and its steps
MainSequence ==
  <<"pending", "approved", "payment_pending", "confirmed", "preparing",
    "ready_for_pickup", "out_for_delivery", "delivered", "in_progress",
    "return_requested", "returning", "completed">>
MainSteps == {<<MainSequence[i], MainSequence[i + 1]>> : i \in 1..(Len(MainSequence) - 1)}
PaymentSteps == {<<"approved", "payment_pending">>, <<"payment_pending", "confirmed">>}

\* C4 as stated: update_status accepts every step of the main sequence, so each
\* request for the next status of the sequence is answered 200 and takes effect
C4_EveryMainStepAccepted ==
  [][(response'.op = "update_status" /\ response'.code # 404) =>
       LET rid == response'.rental
           S == rentals[rid].status
           T == response'.detail
       IN <<S, T>> \in MainSteps =>
            (response'.code = 200 /\ rentals'[rid].status = T)]_vars

\* C4 amended: update_status accepts every step of the main sequence except the
\* two around payment_pending (approved -> payment_pending and payment_pending ->
\* confirmed), which it refuses with 400 leaving the rental as it was
C4_MainStepsExceptPayment ==
  [][(response'.op = "update_status" /\ response'.code # 404) =>
       LET rid == response'.rental
           S == rentals[rid].status
           T == response'.detail
       IN <<S, T>> \in MainSteps =>
            IF <<S, T>> \in PaymentSteps
            THEN response'.code = 400 /\ rentals' = rentals
            ELSE response'.code = 200 /\ rentals'[rid].status = T]_vars

\* update_status has refused to move an approved rental to payment_pending
C4_PaymentStepRefused ==
  /\ response.op = "update_status"
  /\ response.code = 400
  /\ response.detail = "payment_pending"
  /\ rentals[response.rental].status = "approved"

\* The side branches of the status sequence
SideBranches == {"cancelled", "overdue", "dispute"}

\* C5 as stated: each of cancelled, overdue and dispute is accepted by
\* update_status from some status of the main sequence; so whenever a request
\* for one of them is refused for a rental in a main-sequence status, another
\* status of the main sequence accepts it
C5_SideBranchesReachable ==
  \A side \in SideBranches :
     (/\ response.op = "update_status"
      /\ response.code = 400
      /\ response.detail = side
      /\ \E i \in 1..Len(MainSequence) : rentals[response.rental].status = MainSequence[i])
     => \E i \in 1..Len(MainSequence) : UpdateStatusValid(MainSequence[i], side)

\* The operations C6 names, by the endpoint that answers
StatusOperations ==
  {"create", "update_status", "approve", "reject", "cancel",
   "upload_payment_receipt", "initiate_payment", "verify_payment"}

\* C6 as stated: whenever one of the status operations leaves a rental in a new
\* status (or creates it), exactly one RentalStatusUpdate row is appended, for
\* that rental, with new_status equal to the rental's status after the operation
C6_EveryStatusChangeLogged ==
  [][response'.op \in StatusOperations =>
       \A rid \in 1..Len(rentals') :
          (rid \notin RentalIds \/ rentals'[rid].status # rentals[rid].status) =>
             /\ Len(status_updates') = Len(status_updates) + 1
             /\ status_updates'[Len(status_updates')].rental = rid
             /\ status_updates'[Len(status_updates')].new_status = rentals'[rid].status]_vars

\* C7: after every save of a Rental, total_days = end_date - start_date + 1,
\* subtotal = daily_rate * total_days * quantity and total_amount is the sum of
\* subtotal and the four fees, whatever the derived fields held before
C7_TotalsRecomputedOnSave ==
  \A rid \in RentalIds :
     LET r == rentals[rid]
     IN /\ r.total_days = (r.end_date - r.start_date) + 1
        /\ r.subtotal = r.daily_rate * r.total_days * r.quantity
        /\ r.total_amount = r.subtotal + r.delivery_fee + r.insurance_fee
                             + r.late_fees + r.damage_fees

\* A PATCH has set late fees and a total_amount of 0.01 on a three-day rental
\* whose insurance fee has three decimal places before it is stored
C7_PatchedTotals ==
  /\ response.op = "partial_update"
  /\ response.code = 200
  /\ rentals[response.rental].late_fees = 1230
  /\ rentals[response.rental].total_days = 3
  /\ rentals[response.rental].daily_rate = 10250
  /\ rentals[response.rental].total_amount > 10

\* C8 as stated: a sale created for a completed rental has total_revenue equal
\* to the rental's total_amount, a percentage of 10, commission = revenue * 10 /
\* 100, payout = revenue * 90 / 100, and commission + payout = revenue
C8_SaleAmounts ==
  [][Len(sales') = Len(sales) + 1 =>
       LET sale == sales'[Len(sales')]
       IN /\ sale.total_revenue = rentals'[sale.rental].total_amount
          /\ sale.platform_commission_percentage = 10
          /\ sale.platform_commission_amount * 100 = sale.total_revenue * 10
          /\ sale.seller_payout * 100 = sale.total_revenue * 90
          /\ sale.platform_commission_amount + sale.seller_payout = sale.total_revenue]_vars

\* C9: once a sale exists, saving it again leaves platform_commission_amount
\* and seller_payout as they were
C9_SaleAmountsFrozen ==
  [][\A i \in 1..Len(sales) :
       /\ i <= Len(sales')
       /\ sales'[i].platform_commission_amount = sales[i].platform_commission_amount
       /\ sales'[i].seller_payout = sales[i].seller_payout]_vars

\* A sale has been saved in the admin with a percentage of 20 and another
\* revenue, and its commission is not 20% of that revenue
C9_SaleEditedInAdmin ==
  /\ response.op = "admin_save_sale"
  /\ \E i \in 1..Len(sales) :
        /\ sales[i].platform_commission_percentage = 20
        /\ sales[i].total_revenue \in OtherRevenues
        /\ sales[i].payout_status = "completed"
        /\ sales[i].platform_commission_amount * 100 # sales[i].total_revenue * 20

\* The rentals of the probed equipment that share at least one day with the
\* probed range, and the summed quantity of a set of rentals
Overlapping ==
  {i \in RentalIds :
     /\ rentals[i].equipment = availability.equipment
     /\ \E d \in availability.start_date..availability.end_date :
           rentals[i].start_date <= d /\ d <= rentals[i].end_date}

RECURSIVE QuantityOf(_)
QuantityOf(ids) ==
  IF ids = {} THEN 0
  ELSE LET i == CHOOSE j \in ids : TRUE
       IN rentals[i].quantity + QuantityOf(ids \ {i})

\* C10 as stated: is_available_on_dates answers true exactly when available_units
\* minus the summed quantity of the overlapping rentals that are not cancelled
\* is at least the requested quantity
C10_CountsAllNotCancelled ==
  availability # NoProbe =>
    (availability.available <=>
       Equipment(availability.equipment).available_units
         - QuantityOf({i \in Overlapping : rentals[i].status # "cancelled"})
       >= availability.quantity)

\* C10 amended: is_available_on_dates answers true exactly when available_units
\* minus the summed quantity of the overlapping rentals whose status is one of
\* confirmed, preparing, ready_for_pickup, out_for_delivery, delivered and
\* in_progress is at least the requested quantity
C10_CountsActiveOnly ==
  availability # NoProbe =>
    (availability.available <=>
       Equipment(availability.equipment).available_units
         - QuantityOf({i \in Overlapping :
              rentals[i].status \in {"confirmed", "preparing", "ready_for_pickup",
                                      "out_for_delivery", "delivered", "in_progress"}})
       >= availability.quantity)

\* Five units are refused because a confirmed rental that ends on the first
\* day of the probed range holds one, while an approved one is not counted
C10_SharedDayCounted ==
  /\ availability.equipment = "e1"
  /\ availability.start_date = 2
  /\ availability.quantity = 5
  /\ ~availability.available
  /\ Len(rentals) = 2
  /\ \E i, j \in RentalIds :
        /\ rentals[i].equipment = "e1" /\ rentals[i].status = "confirmed"
        /\ rentals[i].end_date = 2 /\ rentals[i].quantity = 1
        /\ rentals[j].equipment = "e1" /\ rentals[j].status = "approved"
        /\ rentals[j].end_date = 4

\* C11: creation checks availability when the request is validated and stores
\* the rental later without checking again or locking: every validated request
\* of a customer is stored as validated, whatever was stored or confirmed in
\* between, so two concurrent requests can both pass the check and both be stored
C11_ValidatedRequestsAreStored ==
  [][\A i \in Creators :
       (/\ creating[i].pc = "validated"
        /\ creating'[i].pc = "done"
        /\ creating[i].user \in Customers)
       => /\ Len(rentals') = Len(rentals) + 1
          /\ rentals'[Len(rentals')].equipment = creating[i].equipment
          /\ rentals'[Len(rentals')].start_date = creating[i].start_date
          /\ rentals'[Len(rentals')].end_date = creating[i].end_date
          /\ rentals'[Len(rentals')].quantity = creating[i].quantity
          /\ response'.code = 201]_vars

\* Two requests for the one unit of e2 on overlapping dates were both validated
\* before either was stored, and both are stored; counted, either one would
\* make the check refuse the other
C11_BothStored ==
  /\ \A i \in Creators : creating[i].pc = "done" /\ creating[i].rows_seen = 0
  /\ Len(rentals) = 2
  /\ rentals[1].equipment = "e2" /\ rentals[2].equipment = "e2"
  /\ rentals[1].start_date <= rentals[2].end_date
  /\ rentals[2].start_date <= rentals[1].end_date
  /\ rentals[1].quantity + rentals[2].quantity > Equipment("e2").available_units
  /\ ~is_available_on_dates(<<[rentals[1] EXCEPT !.status = "confirmed"]>>, "e2",
        rentals[2].start_date, rentals[2].end_date, rentals[2].quantity)
  /\ ~is_available_on_dates(<<[rentals[2] EXCEPT !.status = "confirmed"]>>, "e2",
        rentals[1].start_date, rentals[1].end_date, rentals[1].quantity)

\* The rental endpoints, by the name their answers carry
RentalOperations == StatusOperations \cup {"partial_update"}

\* C12: no rental operation (creation, status change, payment initiation or
\* verification, receipt upload, completion with its sale) changes the
\* available_units or total_units of any equipment
C12_RentalsLeaveUnitsAlone ==
  [][response'.op \in RentalOperations =>
       \A e \in EquipmentIds :
          /\ equipment'[e].available_units = equipment[e].available_units
          /\ equipment'[e].total_units = equipment[e].total_units]_vars

\* A rental of e1 was paid and completed, its sale exists, and e1 still has the
\* units its seller listed
C12_CompletedWithAllUnits ==
  /\ response.op = "update_status"
  /\ response.code = 200
  /\ rentals[response.rental].status = "completed"
  /\ rentals[response.rental].equipment = "e1"
  /\ has_sale(sales, response.rental)
  /\ \E p \in 1..Len(payments) : payments[p].payment_status = "completed"
  /\ equipment["e1"].available_units = 5
  /\ equipment["e1"].total_units = 5

\* C13: when the creation of the RentalSale raises while a rental without sale
\* is saved as completed, the rental stays completed, the operation answers
\* 200 to its caller and no RentalSale exists for the rental afterwards
C13_SaleFailureSwallowed ==
  [][\A u \in Users, rid \in RentalIds :
       (/\ sale_create_raises
        /\ ~has_sale(sales, rid)
        /\ Visible(u, rid)
        /\ \/ rentals[rid].status = "returning" /\ UpdateStatus(u, rid, "completed")
           \/ \E body \in StatusPatchBodies :
                 body.status = "completed" /\ PatchRental(u, rid, body))
       => /\ rentals'[rid].status = "completed"
          /\ response'.code = 200
          /\ ~has_sale(sales', rid)]_vars

\* update_status has completed a rental while the creation of its sale raised
C13_CompletedWithoutSale ==
  /\ sale_create_raises
  /\ response.op = "update_status"
  /\ response.code = 200
  /\ response.detail = "completed"
  /\ rentals[response.rental].status = "completed"
  /\ rentals[response.rental].actual_end_date
  /\ ~has_sale(sales, response.rental)

\* C14: a customer's answer from the documents endpoint holds no document with
\* visible_to_customer = false, and no document with requires_payment = true
\* (neither its entry nor its file URL) while the rental has no completed payment.
C14_CustomerListingFiltered ==
  (response.op = "documents" /\ response.code = 200 /\ has_customer_profile(listing.user))
    => \A d \in listing.documents :
          /\ d.visible_to_customer
          /\ d.requires_payment => completed_payment(listing.rental)

\* The last step is an answer 200 of the documents endpoint
DocumentsListed ==
  response'.op = "documents" /\ response'.code = 200

\* C15 (as stated): the operating manual is reported as locked while the rental
\* has no completed payment and, once it was reported as unlocked, it is reported
\* as unlocked by every later answer; a document with requires_payment = false
\* is never reported as locked.
C15_UnlockedFromThenOn ==
  [][DocumentsListed =>
       /\ \A d \in listing'.documents :
             /\ (d.document_type = "operating_manual"
                   /\ ~completed_payment(listing'.rental)) => d.is_locked
             /\ ~d.requires_payment => ~d.is_locked
       /\ listing.rental = listing'.rental =>
             \A before \in listing.documents, d \in listing'.documents :
                (before.id = d.id /\ ~before.is_locked) => ~d.is_locked]_vars

\* C15 (amended): the operating manual is reported as locked exactly when the
\* rental has no payment with payment_status 'completed' at the time of the
\* request; a document with requires_payment = false is never reported as locked.
C15_LockedWhileNoCompletedPayment ==
  [][DocumentsListed =>
       \A d \in listing'.documents :
          /\ d.document_type = "operating_manual"
               => (d.is_locked <=> ~completed_payment(listing'.rental))
          /\ ~d.requires_payment => ~d.is_locked]_vars

\* An operating manual was reported as unlocked
C15_ManualReportedUnlocked ==
  /\ response.op = "documents"
  /\ response.code = 200
  /\ \E d \in listing.documents : d.document_type = "operating_manual" /\ ~d.is_locked

\* C16: when a verification passes its checks (the payment is found and the
\* caller is the rental's customer) and the gateway reports 'completed', the
\* payment becomes 'completed' with completed_at set and the rental 'confirmed';
\* for every other gateway status, when the gateway call fails, and when the
\* request is refused, no rental changes its status.
C16_VerifyConfirmsOnlyOnCompleted ==
  [][\A u \in Users, payment_id \in 0..MaxPayments, rid \in 0..MaxRentals,
        g \in GatewayAnswers :
        (response'.op = "verify_payment" /\ VerifyPayment(u, payment_id, rid, g)) =>
          LET found == PaymentsByReference(payment_id, rid)
              pid == First(found)
          IN IF /\ g = "completed"
                /\ payment_id # 0
                /\ found # {}
                /\ rentals[payments[pid].rental].customer = u
             THEN /\ payments'[pid].payment_status = "completed"
                  /\ payments'[pid].completed_at
                  /\ rentals'[payments[pid].rental].status = "confirmed"
                  /\ \A r \in RentalIds \ {payments[pid].rental} :
                        rentals'[r].status = rentals[r].status
             ELSE /\ Len(rentals') = Len(rentals)
                  /\ \A r \in RentalIds : rentals'[r].status = rentals[r].status]_vars

\* A verification with gateway status 'completed' confirmed a rental that was
\* waiting for its payment
C16_PaymentVerified ==
  /\ response.op = "verify_payment"
  /\ response.code = 200
  /\ rentals[response.rental].status = "confirmed"
  /\ \E p \in 1..Len(payments) :
        /\ payments[p].rental = response.rental
        /\ payments[p].payment_method = "card"
        /\ payments[p].payment_status = "completed"
        /\ payments[p].completed_at

\* C17: an initiation creates a RentalPayment (pending, by card, for the rental)
\* and moves an 'approved' rental to 'payment_pending' only when the caller is
\* the rental's customer, the rental is 'approved' or 'payment_pending' and the
\* gateway accepts the new payment intent; in that case it does so unless an
\* open session is reused. In every other case no RentalPayment is created or
\* changed and no rental changes its status.
C17_InitiateCreatesOnlyWhenAllowed ==
  [][\A u \in Users, rid \in 0..MaxRentals, g \in GatewayAnswers, c \in BOOLEAN :
        (response'.op = "initiate_payment" /\ InitiatePayment(u, rid, g, c)) =>
          LET allowed == /\ rid \in RentalIds
                         /\ rentals[rid].customer = u
                         /\ rentals[rid].status \in {"approved", "payment_pending"}
              open == {p \in 1..Len(payments) :
                         /\ payments[p].rental = rid
                         /\ payments[p].payment_method = "card"
                         /\ payments[p].payment_status \in {"pending", "processing"}}
              reused == /\ open # {}
                        /\ payments[First(open)].gateway_reference # 0
                        /\ g \notin {"completed", "error"}
          IN IF allowed /\ ~reused /\ c
             THEN /\ Len(payments') = Len(payments) + 1
                  /\ \A p \in 1..Len(payments) : payments'[p] = payments[p]
                  /\ payments'[Len(payments')].rental = rid
                  /\ payments'[Len(payments')].payment_method = "card"
                  /\ payments'[Len(payments')].payment_status = "pending"
                  /\ rentals'[rid].status = "payment_pending"
                  /\ response'.code = 200
             ELSE /\ payments' = payments
                  /\ Len(rentals') = Len(rentals)
                  /\ \A r \in RentalIds : rentals'[r].status = rentals[r].status
                  /\ ~allowed => response'.code \in {400, 403, 404}
                  /\ (allowed /\ ~reused) => response'.code = 502]_vars

\* A customer initiated the payment of their approved rental
C17_PaymentInitiated ==
  /\ response.op = "initiate_payment"
  /\ response.code = 200
  /\ rentals[response.rental].status = "payment_pending"
  /\ \E p \in 1..Len(payments) :
        /\ payments[p].rental = response.rental
        /\ payments[p].payment_method = "card"
        /\ payments[p].payment_status = "pending"

\* C18: cancel succeeds only for a caller with a customer profile on a rental in
\* status 'pending' or 'approved'; it then sets status 'cancelled', cancelled_at
\* and the cancellation reason (the one given, or 'Cancelled by customer'). For
\* such a caller in every other status it answers 400, and whenever it does not
\* succeed the rental is unchanged and no RentalStatusUpdate is added.
C18_CancelBeforeDelivery ==
  [][\A u \in Users, rid \in 1..MaxRentals, reason \in Reasons :
        (response'.op = "cancel" /\ Cancel(u, rid, reason)) =>
          IF /\ Visible(u, rid)
             /\ has_customer_profile(u)
             /\ rentals[rid].status \in {"pending", "approved"}
          THEN /\ response'.code = 200
               /\ rentals'[rid].status = "cancelled"
               /\ rentals'[rid].cancelled_at
               /\ rentals'[rid].cancellation_reason =
                     (IF reason = NotGiven THEN "Cancelled by customer" ELSE reason)
          ELSE /\ response'.code # 200
               /\ (Visible(u, rid) /\ has_customer_profile(u)) => response'.code = 400
               /\ rentals' = rentals
               /\ status_updates' = status_updates]_vars

\* A customer cancelled their approved rental giving a reason
C18_CancelledWithReason ==
  /\ response.op = "cancel"
  /\ response.code = 200
  /\ rentals[response.rental].status = "cancelled"
  /\ rentals[response.rental].approved_at
  /\ rentals[response.rental].cancellation_reason = "changed plans"

\* The rental an accepted approve leaves behind
Approved(u, rid) ==
  /\ response'.code = 200
  /\ rentals'[rid].status = "approved"
  /\ rentals'[rid].approved_at
  /\ Len(status_updates') = Len(status_updates) + 1
  /\ status_updates'[Len(status_updates')] =
        [rental |-> rid, old_status |-> "pending", new_status |-> "approved"]

C20_InvalidRequestsRejected ==
  [][\A u \in Users, e \in EquipmentIds, range \in DateRanges, q \in Quantities :
        (/\ response'.op = "create"
         /\ CreateRental(u, e, range, q, TRUE)
         /\ \/ range[1] < Today
            \/ range[2] <= range[1]
            \/ equipment[e].status # "available"
            \/ q > equipment[e].available_units
            \/ ~is_available_on_dates(rentals, e, range[1], range[2], q))
        => /\ response'.code = 400
           /\ rentals' = rentals
           /\ status_updates' = status_updates
           /\ documents' = documents]_vars

\* A request was rejected because the units are booked on its dates, with the
\* listing available and holding enough units in total
C20_RejectedAsBooked ==
  /\ response.op = "create"
  /\ response.code = 400
  /\ response.detail =
       "Not enough units available for the selected dates. Some units are already booked."
  /\ Len(rentals) = 1
  /\ Len(documents) <= 2

\* C21: submit_review adds a RentalReview only when the caller has a customer
\* profile, the rental is 'completed' and has no review yet, and the review is
\* for that rental; no other operation adds or changes a review; so each rental
\* has at most one review, and only a rental that was completed has one.
C21_ReviewOnlyOnceWhenCompleted ==
  [][/\ \A u \in Users, rid \in 1..MaxRentals, body \in ReviewBodies :
          (/\ response'.op = "submit_review"
           /\ SubmitReview(u, rid, body)
           /\ reviews' # reviews)
          => /\ has_customer_profile(u)
             /\ rid \in RentalIds
             /\ rentals[rid].status = "completed"
             /\ \A i \in 1..Len(reviews) : reviews[i].rental # rid
             /\ Len(reviews') = Len(reviews) + 1
             /\ reviews'[Len(reviews')].rental = rid
             /\ \A i \in 1..Len(reviews) : reviews'[i] = reviews[i]
     /\ response'.op # "submit_review" => reviews' = reviews
     /\ \A i, j \in 1..Len(reviews') :
          reviews'[i].rental = reviews'[j].rental => i = j]_vars

\* A completed rental was reviewed and a second review of it was refused
C21_SecondReviewRefused ==
  /\ response.op = "submit_review"
  /\ response.code = 400
  /\ Len(reviews) = 1
  /\ rentals[reviews[1].rental].status = "completed"

\* The HTTP request ended without a usable answer: a timeout, a connection
\* error, an unparsable response, or a status code the method does not accept
Unsuccessful(method, http) ==
  \/ http.kind \in {"timeout", "connection_error"}
  \/ http.body = "unparsable"
  \/ http.status_code \notin (IF method = "create_payment_intent" THEN {200, 201} ELSE {200})

\* C22: create_payment_intent and get_payment_status never raise; on a timeout,
\* a connection error, an unparsable response or a non-success status code they
\* return success = false with an error message; every call sends at most one
\* HTTP request; is_payment_completed returns true only when the status request
\* is answered 200 with status 'completed'.
C22_ClientNeverRaises ==
  /\ ziina.requests <= 1
  /\ (ziina.pc = "idle" /\ ziina.method \in {"create_payment_intent", "get_payment_status"})
       => /\ ziina.result.raised = ""
          /\ Unsuccessful(ziina.method, ziina.http)
               => /\ ~ziina.result.value.success
                  /\ ziina.result.value.error # ""
  /\ (ziina.pc = "idle" /\ ziina.method = "is_payment_completed"
        /\ ziina.result.raised = "" /\ ziina.result.value.is_completed)
       => /\ ziina.http.kind = "response"
          /\ ziina.http.status_code = 200
          /\ ziina.http.body = "object"
          /\ ziina.http.status_field = "completed"

\* A status call was answered with a body that is JSON but no object, and
\* returned a failure
C22_ArrayBodyReturnedAsFailure ==
  /\ ziina.pc = "idle"
  /\ ziina.method = "get_payment_status"
  /\ ziina.http.body = "array"
  /\ ziina.result.raised = ""
  /\ ~ziina.result.value.success

\* C23: each equipment has at most one primary image and at most 7 images;
\* a save of an image as primary that is written leaves it the only primary
\* image of its equipment; the creation of an eighth image raises an error and
\* leaves the table as it was.
C23_OnePrimarySevenImages ==
  [][/\ \A e \in EquipmentIds :
          /\ Cardinality(ImagesOf(images', e)) <= 7
          /\ Cardinality({i \in ImagesOf(images', e) : images'[i].is_primary}) <= 1
     /\ \A e \in EquipmentIds, o \in DisplayOrders :
          (/\ response'.op = "create_image"
           /\ CreateImage(e, TRUE, o)
           /\ response'.detail = "")
          => \A i \in ImagesOf(images', e) : images'[i].is_primary <=> i = Len(images')
     /\ \A e \in EquipmentIds, p \in BOOLEAN, o \in DisplayOrders :
          (/\ response'.op = "create_image"
           /\ CreateImage(e, p, o)
           /\ Cardinality(ImagesOf(images, e)) >= 7)
          => response'.detail = "ValueError" /\ images' = images]_vars

\* The creation of an eighth image of an equipment was refused
C23_EighthImageRefused ==
  /\ response.op = "create_image"
  /\ response.detail = "ValueError"
  /\ Cardinality(ImagesOf(images, "e1")) = 7
  /\ \E i \in ImagesOf(images, "e1") : images[i].is_primary

\* The login OTPs of a user that are not used
UnusedLoginOtps(table, user) ==
  {i \in 1..Len(table) :
     table[i].user = user /\ table[i].purpose = "login" /\ ~table[i].is_used}

\* C24: each user has at most one login OTP with is_used = false, a request
\* leaving only the new one unused; a verification accepts only an OTP that is
\* not used and marks it as used, and a used OTP never becomes unused again, so
\* an OTP accepted once is not accepted again.
C24_OneUnusedOtpNoReplay ==
  [][/\ \A user \in Accounts : Cardinality(UnusedLoginOtps(otp_codes', user)) <= 1
     /\ \A i \in 1..Len(otp_codes) :
          /\ Len(otp_codes') >= Len(otp_codes)
          /\ otp_codes[i].is_used => otp_codes'[i].is_used
     /\ \A email \in Emails, code \in Codes :
          (/\ response'.op = "otp_request"
           /\ OTPRequest(email, code)
           /\ email \in Accounts)
          => UnusedLoginOtps(otp_codes', email) = {Len(otp_codes')}
     /\ \A email \in Emails, code \in GivenCodes :
          (response'.op = "otp_verify" /\ OTPVerify(email, code))
          => IF response'.code = 200
             THEN /\ response'.rental \in 1..Len(otp_codes)
                  /\ ~otp_codes[response'.rental].is_used
                  /\ now <= otp_codes[response'.rental].expires_at
                  /\ otp_codes[response'.rental].user = email
                  /\ otp_codes[response'.rental].code = code
                  /\ otp_codes'[response'.rental].is_used
             ELSE otp_codes' = otp_codes]_vars

\* A code was verified, and the same value, sent again, was refused
C24_ReplayRefused ==
  /\ response.op = "otp_verify"
  /\ response.code = 400
  /\ \E i \in 1..Len(otp_codes) :
        /\ otp_codes[i].user = response.detail
        /\ otp_codes[i].is_used
        /\ now <= otp_codes[i].expires_at
        /\ \A j \in 1..Len(otp_codes) : otp_codes[j].user = otp_codes[i].user => j = i

\* Days a rental of the model can cover
BookingDays == 0..4

\* The units of an equipment that its active rentals hold on a day
ActiveQuantityOn(e, day) == SumQuantity(rentals, Len(rentals), e, day, day)

\* C25: for every equipment and every day, the quantities of the equipment's
\* rentals that cover the day and are in an active status add up to at most the
\* equipment's available_units, whatever creations, approvals, payments and
\* status updates were executed one after the other.
C25_ActiveWithinAvailableUnits ==
  \A e \in EquipmentIds, day \in BookingDays :
    ActiveQuantityOn(e, day) <= Equipment(e).available_units

\* 'confirmed' and the statuses that follow it in the main sequence
ConfirmedOrLater ==
  {MainSequence[i] : i \in {j \in 1..Len(MainSequence) :
                             \E k \in 1..j : MainSequence[k] = "confirmed"}}

\* C26: a rental is 'confirmed', or in a later status of the main sequence,
\* only if it has at least one payment with payment_status 'completed': no
\* sequence of API calls brings an unpaid rental to 'confirmed'.
C26_ConfirmedOnlyWhenPaid ==
  \A rid \in RentalIds :
    rentals[rid].status \in ConfirmedOrLater => completed_payment(rid)

====
